---------------------------- MODULE Spec2Model ----------------------------
(***************************************************************************)
(* Variant path queries of the StarRocks backend:                          *)
(*   be/src/exprs/variant_path_parser.{h,cpp}   the path parser and seek   *)
(*   be/src/exprs/variant_functions.{h,cpp}     variant_query and its      *)
(*                                              fragment-scoped state      *)
(*                                                                         *)
(* A path text is a sequence of one-character strings.  The cursor _pos is *)
(* 0-based as in the source, so the character under the cursor is          *)
(* in[p + 1].                                                              *)
(***************************************************************************)
EXTENDS Integers, Sequences, FiniteSets, TLC

VARIABLES
    \* ---- one VariantPathParser object (SpecParser) ----
    input,          \* _input
    pos,            \* _pos
    segments,       \* the local vector of parse()
    ppc,            \* where parse() stands: idle, loop, try_index, try_quoted, done, failed
    saved_pos,      \* saved_pos of parse_segment
    perr,           \* the Status parse() returned (NoErr while it runs or on success)
    tried,          \* history: the bracket productions called for the segment at hand
    starts,         \* history: the cursor at each call of parse_segment
    first,          \* history: what the first parse() on the object returned
    \* ---- one call of VariantPathParser::seek (SpecSeek) ----
    seek_root,      \* *variant
    seek_path,      \* segments
    seek_result,    \* what seek returned (NotCalled before the call)
    \* ---- the function contexts and their variant_query calls (Spec) ----
    path_arg,       \* the path argument as the planner knows it: constant or not
    phase,          \* the context's life, from created to closed or failed
    fn_state,       \* the FRAGMENT_LOCAL function state: nullptr or a NativeVariantPath
    heap,           \* the NativeVariantPath objects allocated so far
    qpc,            \* where the call stands: idle, loop, returned, crashed
    columns,        \* the argument columns of the call
    row,            \* the loop variable
    result,         \* the ColumnBuilder (after the call: the column returned)
    status,         \* the Status of the call
    stored_path,    \* the local VariantPath stored_path of the call
    trace,          \* history: what was done for each row of the call
    parse_calls,    \* history: the parses run for the context
    batches,        \* history: the calls of variant_query on the context
    \* ---- the casts of one resolved value (SpecCast) ----
    cast_value,     \* the VariantValue to cast
    cast_type,      \* ResultType
    cast_core,      \* what the core cast for ResultType did (NotCalled before)
    cast_out,       \* what cast_variant_value_to did, per AllowThrowException
    \* ---- one VariantValue built from a serialized buffer (SpecSlice) ----
    slice,          \* the bytes of the Slice
    made            \* what the constructor did (NotMade before)

pvars == <<input, pos, segments, ppc, saved_pos, perr, tried, starts, first>>
svars == <<seek_root, seek_path, seek_result>>
qvars == <<path_arg, phase, fn_state, heap, qpc, columns, row, result, status,
           stored_path, trace, parse_calls, batches>>
cvars == <<cast_value, cast_type, cast_core, cast_out>>
bvars == <<slice, made>>
vars == <<pvars, svars, qvars, cvars, bvars>>

-----------------------------------------------------------------------------
(* Bounds *)

\* Every text over Alphabet of at most MaxLen characters that starts with '$'
\* is parsed, and every text of at most MaxUnrooted characters.
MaxLen == 6

MaxUnrooted == 3

\* seek is called with every sequence of at most MaxSegments segments.
MaxSegments == 3

\* A call of variant_query gets columns of at most MaxRows rows.
MaxRows == 2

\* variant_query is called at most MaxBatches times on a context.
MaxBatches == 2

\* The parses of a context are counted up to MaxParseCalls.
MaxParseCalls == 2

\* With the calls in any order, preload_variant_segments allocates at most
\* MaxObjects objects.
MaxObjects == 2

\* The deletes of one object are counted up to MaxDeletes.
MaxDeletes == 2

\* Termination of parse is checked on texts of at most MaxFairLen characters.
MaxFairLen == 5

\* A serialized buffer has at most MaxSlice bytes.
MaxSlice == 6

-----------------------------------------------------------------------------
(* Characters *)

SQ == "'"
DQ == "\""
BS == "\\"
NUL == "NUL"            \* what peek() and advance() return at the end: '\0'
LF == "LF"              \* '\n'
TAB == "TAB"            \* '\t'
CR == "CR"              \* '\r'

Digits == {"0", "1", "2", "3", "4", "5", "6", "7", "8", "9"}
Letters == {"a", "b", "k", "n", "t", "r", "x", "_"}

\* The characters the exhaustive inputs are drawn from.
Alphabet == {"$", ".", "[", "]", SQ, DQ, BS, "0", "1", "a"}

DigitVal(c) ==
    CASE c = "0" -> 0 [] c = "1" -> 1 [] c = "2" -> 2 [] c = "3" -> 3
      [] c = "4" -> 4 [] c = "5" -> 5 [] c = "6" -> 6 [] c = "7" -> 7
      [] c = "8" -> 8 [] c = "9" -> 9

\* std::numeric_limits<int>::max(): std::stoi throws std::out_of_range above it.
INT_MAX == 2147483647

-----------------------------------------------------------------------------
(* The scanner primitives *)

is_at_end(in, p) == p >= Len(in)

peek(in, p) == IF is_at_end(in, p) THEN NUL ELSE in[p + 1]

\* match(expected): whether the cursor advances by one.
match(in, p, expected) == ~is_at_end(in, p) /\ peek(in, p) = expected

is_digit(c) == c \in Digits

\* A faulty is_valid_key_char, letters and '_' only, to test C9 against.
is_valid_key_char_LettersOnly(c) == c \in Letters

is_valid_key_char(c) == c \in Digits \/ c \in Letters

NoPos == -1
NoErr == [msg |-> "OK", at |-> NoPos]
Err(m, p) == [msg |-> m, at |-> p]

RECURSIVE parse_number(_, _)
\* The digits from p on and the cursor after them.
parse_number(in, p) ==
    IF ~is_at_end(in, p) /\ is_digit(peek(in, p))
    THEN LET r == parse_number(in, p + 1)
         IN  [str |-> <<in[p + 1]>> \o r.str, pos |-> r.pos]
    ELSE [str |-> <<>>, pos |-> p]

RECURSIVE parse_unquoted_key(_, _)
parse_unquoted_key(in, p) ==
    IF ~is_at_end(in, p) /\ is_valid_key_char(peek(in, p))
    THEN LET r == parse_unquoted_key(in, p + 1)
         IN  [str |-> <<in[p + 1]>> \o r.str, pos |-> r.pos]
    ELSE [str |-> <<>>, pos |-> p]

\* The switch on the escaped character.
Unescape(escaped) ==
    CASE escaped = "n" -> LF
      [] escaped = "t" -> TAB
      [] escaped = "r" -> CR
      [] OTHER -> escaped

RECURSIVE parse_quoted_string_Verbatim(_, _, _)
\* A faulty parse_quoted_string that knows no escape: it takes the
\* characters as they are, up to the first quote.
parse_quoted_string_Verbatim(in, p, quote) ==
    IF ~is_at_end(in, p) /\ peek(in, p) # quote
    THEN LET r == parse_quoted_string_Verbatim(in, p + 1, quote)
         IN  [str |-> <<in[p + 1]>> \o r.str, pos |-> r.pos]
    ELSE [str |-> <<>>, pos |-> p]

RECURSIVE parse_quoted_string(_, _, _)
parse_quoted_string(in, p, quote) ==
    IF ~is_at_end(in, p) /\ peek(in, p) # quote
    THEN LET c == in[p + 1]
         IN  IF c = BS /\ ~is_at_end(in, p + 1)
             THEN LET r == parse_quoted_string(in, p + 2, quote)
                  IN  [str |-> <<Unescape(in[p + 2])>> \o r.str, pos |-> r.pos]
             ELSE LET r == parse_quoted_string(in, p + 1, quote)
                  IN  [str |-> <<c>> \o r.str, pos |-> r.pos]
    ELSE [str |-> <<>>, pos |-> p]

\* The accumulation of std::stoi (strtol): digit by digit from the left; a
\* value above INT_MAX is out of range, and stays so.
OutOfRange == -2

RECURSIVE DecimalValue(_, _)
DecimalValue(ds, acc) ==
    IF ds = <<>> THEN acc
    ELSE LET d == DigitVal(Head(ds))
         IN  IF acc = OutOfRange \/ acc > (INT_MAX - d) \div 10
             THEN OutOfRange
             ELSE DecimalValue(Tail(ds), 10 * acc + d)

\* A faulty std::stoi that gives INT_MAX for a value out of range instead of
\* throwing.
stoi_Saturating(ds) ==
    LET v == DecimalValue(ds, 0)
    IN  IF v = OutOfRange THEN [ok |-> TRUE, value |-> INT_MAX]
        ELSE [ok |-> TRUE, value |-> v]

\* std::stoi on a non-empty digit string: the value, or std::out_of_range.
stoi(ds) ==
    LET v == DecimalValue(ds, 0)
    IN  IF v = OutOfRange THEN [ok |-> FALSE, value |-> 0]
        ELSE [ok |-> TRUE, value |-> v]

-----------------------------------------------------------------------------
(* Segments and the productions.  A production returns ok, the segment,    *)
(* the cursor it leaves and, on failure, the Status.                       *)

ObjectExtraction(key) == [kind |-> "object", key |-> key]
ArrayExtraction(index) == [kind |-> "array", index |-> index]
NoSegment == [kind |-> "none"]

is_object_extraction(seg) == seg.kind = "object"
is_array_extraction(seg) == seg.kind = "array"

\* A faulty success that holds no segment.
Ok_NullSegment(seg, p) == [ok |-> TRUE, seg |-> NoSegment, pos |-> p, err |-> NoErr]

Ok(seg, p) == [ok |-> TRUE, seg |-> seg, pos |-> p, err |-> NoErr]
Fail(m, p) == [ok |-> FALSE, seg |-> NoSegment, pos |-> p, err |-> Err(m, p)]

\* A faulty parse_root that takes any first character, to test C6 against.
parse_root_AnyChar(in, p) == ~is_at_end(in, p)

parse_root(in, p) == match(in, p, "$")

parse_array_index(in, p) ==
    IF ~match(in, p, "[") THEN Fail("Expected '['", p)
    ELSE LET n == parse_number(in, p + 1)
         IN  IF n.str = <<>> THEN Fail("Expected array index after '['", n.pos)
             ELSE IF ~match(in, n.pos, "]")
                  THEN Fail("Expected ']' after array index", n.pos)
                  ELSE LET v == stoi(n.str)
                       IN  IF v.ok THEN Ok(ArrayExtraction(v.value), n.pos + 1)
                           ELSE Fail("Invalid array index", n.pos + 1)

parse_quoted_key(in, p) ==
    IF ~match(in, p, "[") THEN Fail("Expected '['", p)
    ELSE LET quote == peek(in, p + 1)
         IN  IF quote # SQ /\ quote # DQ THEN Fail("Expected quote", p + 1)
             ELSE LET s == parse_quoted_string(in, p + 2, quote)
                  IN  IF ~match(in, s.pos, quote)
                      THEN Fail("Expected closing quote", s.pos)
                      ELSE IF ~match(in, s.pos + 1, "]")
                           THEN Fail("Expected ']' after quoted key", s.pos + 1)
                           ELSE Ok(ObjectExtraction(s.str), s.pos + 2)

\* A faulty parse_object_key that takes the empty key, to test C7 against.
parse_object_key_EmptyKey(in, p) ==
    IF ~match(in, p, ".") THEN Fail("Expected '.'", p)
    ELSE LET k == parse_unquoted_key(in, p + 1)
         IN  Ok(ObjectExtraction(k.str), k.pos)

parse_object_key(in, p) ==
    IF ~match(in, p, ".") THEN Fail("Expected '.'", p)
    ELSE LET k == parse_unquoted_key(in, p + 1)
         IN  IF k.str = <<>> THEN Fail("Expected key after '.'", k.pos)
             ELSE Ok(ObjectExtraction(k.str), k.pos)

\* _pos = saved_pos, before the quoted-key production and after both failed.
\* A faulty rewind that leaves the cursor where the failed production left
\* it, to test C8 against.
RewindTo_NoReset(saved, cur) == cur

\* A faulty rewind to the character before the one the segment began at.
RewindTo_Before(saved, cur) == saved - 1

\* _pos = saved_pos.
RewindTo(saved, cur) == saved


\* parse_segment as a whole: the dot production, or the index production and,
\* when it fails, the quoted-key production from the saved cursor.
parse_segment(in, p) ==
    IF is_at_end(in, p) THEN Fail("Unexpected end of input", p)
    ELSE LET c == peek(in, p)
         IN  IF c = "." THEN parse_object_key(in, p)
             ELSE IF c = "["
                  THEN LET arraySegment == parse_array_index(in, p)
                       IN  IF arraySegment.ok THEN arraySegment
                           ELSE LET objectSegment ==
                                        parse_quoted_key(in, RewindTo(p, arraySegment.pos))
                                IN  IF objectSegment.ok THEN objectSegment
                                    ELSE Fail("Failed to parse segment",
                                              RewindTo(p, objectSegment.pos))
                  ELSE Fail("Unexpected character", p)

RECURSIVE parse_loop(_, _, _)
\* The while loop of parse() from cursor p on, with the segments so far.
parse_loop(in, p, segs) ==
    IF is_at_end(in, p) THEN [ok |-> TRUE, segments |-> segs, err |-> NoErr]
    ELSE LET r == parse_segment(in, p)
         IN  IF ~r.ok THEN [ok |-> FALSE, segments |-> <<>>, err |-> r.err]
             ELSE parse_loop(in, r.pos, Append(segs, r.seg))

\* VariantPathParser(in).parse(): StatusOr<std::vector<VariantPathSegmentPtr>>.
parse(in) ==
    IF ~parse_root(in, 0)
    THEN [ok |-> FALSE, segments |-> <<>>,
          err |-> Err("Path must start with '$'", NoPos)]
    ELSE parse_loop(in, 1, <<>>)

-----------------------------------------------------------------------------
(* The Variant view: the metadata (the dictionary of the root document,     *)
(* shared by every nested view) and the value at hand.  A value is a        *)
(* record with its type; an object holds fields, a map from keys to values, *)
(* an array holds elems.                                                    *)

Variant(metadata, value) == [metadata |-> metadata, value |-> value]

VNull == [type |-> "NULL_TYPE"]
VBool(b) == [type |-> "BOOLEAN", bool |-> b]
VInt(t, n) == [type |-> t, int |-> n]
VString(str) == [type |-> "STRING", str |-> str]
VArray(elems) == [type |-> "ARRAY", elems |-> elems]
VObject(fields) == [type |-> "OBJECT", fields |-> fields]
\* A value whose bytes do not decode (bad offsets, sizes beyond the buffer).
VCorrupt == [type |-> "CORRUPT"]

NoVariant == [metadata |-> "none", value |-> [type |-> "none"]]

\* Variant::get_object_by_key: NotFound unless the value is an object that
\* holds the key.
get_object_by_key(variant, key) ==
    IF variant.value.type = "OBJECT" /\ key \in DOMAIN variant.value.fields
    THEN [ok |-> TRUE, value |-> Variant(variant.metadata, variant.value.fields[key])]
    ELSE [ok |-> FALSE, value |-> NoVariant]

\* Variant::get_element_at_index: NotFound unless the value is an array and
\* the index is in [0, count).
get_element_at_index(variant, index) ==
    IF variant.value.type = "ARRAY" /\ index >= 0 /\ index < Len(variant.value.elems)
    THEN [ok |-> TRUE, value |-> Variant(variant.metadata, variant.value.elems[index + 1])]
    ELSE [ok |-> FALSE, value |-> NoVariant]

SeekOk(current, n) == [ok |-> TRUE, value |-> current, applied |-> n, err |-> "OK"]
SeekError(m, n) == [ok |-> FALSE, value |-> NoVariant, applied |-> n, err |-> m]

RECURSIVE seek_loop_SkipFailed(_, _, _)
\* A faulty loop that skips a segment that fails and goes on with the value
\* at hand, to test C5 against.
seek_loop_SkipFailed(current, segs, i) ==
    IF i > Len(segs) THEN SeekOk(current, i - 1)
    ELSE LET found == IF is_object_extraction(segs[i])
                      THEN get_object_by_key(current, segs[i].key)
                      ELSE get_element_at_index(current, segs[i].index)
         IN  seek_loop_SkipFailed(IF found.ok THEN found.value ELSE current, segs, i + 1)

RECURSIVE seek_loop(_, _, _)
\* The for loop of seek from segment i on; applied counts the calls of
\* get_object_by_key and get_element_at_index made so far.
seek_loop(current, segs, i) ==
    IF i > Len(segs) THEN SeekOk(current, i - 1)
    ELSE LET segment == segs[i]
         IN  IF is_object_extraction(segment)
             THEN LET found == get_object_by_key(current, segment.key)
                  IN  IF ~found.ok THEN SeekError("Object key not found in variant", i)
                      ELSE seek_loop(found.value, segs, i + 1)
             ELSE IF is_array_extraction(segment)
                  THEN LET found == get_element_at_index(current, segment.index)
                       IN  IF ~found.ok
                           THEN SeekError("Array index out of bounds in variant", i)
                           ELSE seek_loop(found.value, segs, i + 1)
                  ELSE SeekError("Unknown segment type", i - 1)

\* A faulty seek that gives the root when a segment fails, to test C3
\* against.
seek_RootOnFailure(variant, segs) ==
    LET r == seek_loop(variant, segs, 1)
    IN  IF r.ok THEN r ELSE SeekOk(variant, r.applied)

\* VariantPathParser::seek(variant, segments).
seek(variant, segs) == seek_loop(variant, segs, 1)

-----------------------------------------------------------------------------
(* The entries of the result column *)

NullCell == [null |-> TRUE]
Cell(datum) == [null |-> FALSE, datum |-> datum]

\* The owned form Variant::to_value() gives: metadata and value.
VariantValue(metadata, value) == [owned_metadata |-> metadata, owned_value |-> value]

\* Variant::to_value(): the owned VariantValue, or an error for bytes that do
\* not decode.
to_value(variant) ==
    IF variant.value.type = "CORRUPT"
    THEN [ok |-> FALSE, value |-> VariantValue("none", VNull)]
    ELSE [ok |-> TRUE, value |-> VariantValue(variant.metadata, variant.value)]

-----------------------------------------------------------------------------
(* The casts of util/variant_converter.cpp.  A cast returns a Status and    *)
(* leaves entries in the ColumnBuilder it was given: ok and err are the     *)
(* Status, appended the entries the builder got during the call.            *)

Casted(appended) == [ok |-> TRUE, appended |-> appended, err |-> "OK"]
CastError(err, appended) == [ok |-> FALSE, appended |-> appended, err |-> err]
NotCast == [ok |-> FALSE, appended |-> <<>>, err |-> "not called"]

\* A value of type t whose payload is cut short: type() answers t from the
\* header byte, the getter fails its bounds check.
VTruncated(t) == [type |-> t, truncated |-> TRUE]

\* A value of a type the casts only look at the type of (float, double,
\* decimal, date, binary).
VOther(t) == [type |-> t, payload |-> "any"]

IntegerTypes == {"INT8", "INT16", "INT32", "INT64"}

\* Variant::get_bool, get_int8 .. get_int64 (t names the getter), get_string:
\* the payload, or an error when the type does not match or the payload is
\* cut short.
get_bool(variant) ==
    IF variant.value.type = "BOOLEAN" /\ "bool" \in DOMAIN variant.value
    THEN [ok |-> TRUE, value |-> variant.value.bool]
    ELSE [ok |-> FALSE, value |-> FALSE]

get_int(variant, t) ==
    IF variant.value.type = t /\ "int" \in DOMAIN variant.value
    THEN [ok |-> TRUE, value |-> variant.value.int]
    ELSE [ok |-> FALSE, value |-> 0]

get_string(variant) ==
    IF variant.value.type = "STRING" /\ "str" \in DOMAIN variant.value
    THEN [ok |-> TRUE, value |-> variant.value.str]
    ELSE [ok |-> FALSE, value |-> <<>>]

\* StringParser::string_to_int<int32_t>: an optional sign and one or more
\* digits, the value within 32 bits.  A text is a sequence of characters.
string_to_int(str) ==
    LET signed == str # <<>> /\ Head(str) \in {"-", "+"}
        ds == IF signed THEN Tail(str) ELSE str
    IN  IF \/ ds = <<>>
           \/ \E i \in 1..Len(ds) : ds[i] \notin Digits
           \/ DecimalValue(ds, 0) = OutOfRange
        THEN [ok |-> FALSE, value |-> 0]
        ELSE [ok |-> TRUE,
              value |-> IF Head(str) = "-" THEN 0 - DecimalValue(ds, 0)
                        ELSE DecimalValue(ds, 0)]

\* StringParser::string_to_bool: the literals true and false.
string_to_bool(str) ==
    IF str = <<"t", "r", "u", "e">> THEN [ok |-> TRUE, value |-> TRUE]
    ELSE IF str = <<"f", "a", "l", "s", "e">> THEN [ok |-> TRUE, value |-> FALSE]
    ELSE [ok |-> FALSE, value |-> FALSE]

\* cast_variant_to_bool without the fall back to the boolean literal.
cast_variant_to_bool_NoLiteral(variant) ==
    LET type == variant.value.type
        value == get_bool(variant)
        str == get_string(variant)
        r == string_to_int(str.value)
    IN  IF type = "NULL_TYPE" THEN Casted(<<NullCell>>)
        ELSE IF type = "BOOLEAN"
        THEN IF ~value.ok THEN CastError("get_bool", <<>>)
             ELSE Casted(<<Cell(value.value)>>)
        ELSE IF type = "STRING" /\ str.ok
        THEN IF ~r.ok THEN CastError("VariantError", <<>>)
             ELSE Casted(<<Cell(r.value # 0)>>)
        ELSE CastError("NotSupported", <<>>)

cast_variant_to_bool(variant) ==
    LET type == variant.value.type
        value == get_bool(variant)
        str == get_string(variant)
        r == string_to_int(str.value)
        casted == string_to_bool(str.value)
    IN  IF type = "NULL_TYPE" THEN Casted(<<NullCell>>)
        ELSE IF type = "BOOLEAN"
        THEN IF ~value.ok THEN CastError("get_bool", <<>>)
             ELSE Casted(<<Cell(value.value)>>)
        ELSE IF type = "STRING" /\ str.ok
        THEN IF ~r.ok
             THEN IF ~casted.ok THEN CastError("VariantError", <<>>)
                  ELSE Casted(<<Cell(casted.value)>>)
             ELSE Casted(<<Cell(r.value # 0)>>)
        ELSE CastError("NotSupported", <<>>)

\* The bits of RunTimeCppType<ResultType> for the integer targets.
Width(ResultType) ==
    CASE ResultType = "TYPE_TINYINT" -> 8
      [] ResultType = "TYPE_SMALLINT" -> 16
      [] ResultType = "TYPE_INT" -> 32
      [] ResultType = "TYPE_BIGINT" -> 64

\* static_cast<RunTimeCppType<ResultType>>(n): modulo 2^Width into the signed
\* range.  The values of this model fit 32 bits, so a target of 32 bits or
\* more, and double, hold every one of them.
static_cast_Saturating(ResultType, n) ==
    IF ResultType \in {"TYPE_TINYINT", "TYPE_SMALLINT"}
    THEN LET half == 2 ^ (Width(ResultType) - 1)
         IN  IF n >= half THEN half - 1 ELSE IF n < 0 - half THEN 0 - half ELSE n
    ELSE n

static_cast(ResultType, n) ==
    IF ResultType \in {"TYPE_TINYINT", "TYPE_SMALLINT"}
    THEN LET m == n % (2 ^ Width(ResultType))
         IN  IF m >= 2 ^ (Width(ResultType) - 1) THEN m - 2 ^ Width(ResultType) ELSE m
    ELSE n

cast_variant_to_arithmetic(ResultType, variant) ==
    LET type == variant.value.type
        b == get_bool(variant)
        value == get_int(variant, type)
    IN  IF type = "NULL_TYPE" THEN Casted(<<NullCell>>)
        ELSE IF type = "BOOLEAN"
        THEN IF ~b.ok THEN CastError("get_bool", <<>>)
             ELSE Casted(<<Cell(static_cast(ResultType, IF b.value THEN 1 ELSE 0))>>)
        ELSE IF type \in IntegerTypes
        THEN IF ~value.ok THEN CastError("get_int", <<>>)
             ELSE Casted(<<Cell(static_cast(ResultType, value.value))>>)
        ELSE CastError("NotSupported", <<>>)

\* VariantUtil::variant_to_json: the JSON text of the value, or an error for
\* bytes that do not decode.
variant_to_json(metadata, value) ==
    IF value.type = "CORRUPT" \/ "truncated" \in DOMAIN value
    THEN [ok |-> FALSE, text |-> <<>>]
    ELSE [ok |-> TRUE, text |-> <<"json", value>>]

cast_variant_to_string(variant, value) ==
    LET type == variant.value.type
        str == get_string(variant)
        json == variant_to_json(value.owned_metadata, value.owned_value)
    IN  IF type = "NULL_TYPE" THEN Casted(<<NullCell>>)
        ELSE IF type = "STRING"
        THEN IF ~str.ok THEN CastError("get_string", <<>>)
             ELSE Casted(<<Cell(str.value)>>)
        ELSE IF ~json.ok THEN CastError("variant_to_json", <<>>)
             ELSE Casted(<<Cell(json.text)>>)

\* lt_is_arithmetic and lt_is_string over the result types of this model.
lt_is_arithmetic(ResultType) ==
    ResultType \in {"TYPE_BOOLEAN", "TYPE_TINYINT", "TYPE_SMALLINT", "TYPE_INT",
                    "TYPE_BIGINT", "TYPE_DOUBLE"}

lt_is_string(ResultType) == ResultType = "TYPE_VARCHAR"

\* The if constexpr chain of cast_variant_value_to that picks the core cast.
core_cast(ResultType, value) ==
    LET variant == Variant(value.owned_metadata, value.owned_value)
    IN  IF ResultType = "TYPE_BOOLEAN" THEN cast_variant_to_bool(variant)
        ELSE IF lt_is_arithmetic(ResultType)
        THEN cast_variant_to_arithmetic(ResultType, variant)
        ELSE cast_variant_to_string(variant, value)

\* cast_variant_value_to that projects a failure the same way for both
\* policies.
cast_variant_value_to_AlwaysSoft(ResultType, AllowThrowException, value) ==
    LET core == core_cast(ResultType, value)
    IN  IF /\ ~lt_is_arithmetic(ResultType)
           /\ ~lt_is_string(ResultType)
           /\ ResultType # "TYPE_VARIANT"
        THEN Casted(<<NullCell>>)
        ELSE IF ResultType = "TYPE_VARIANT" THEN Casted(<<Cell(value)>>)
        ELSE IF ~core.ok THEN Casted(core.appended \o <<NullCell>>)
        ELSE Casted(core.appended)

cast_variant_value_to(ResultType, AllowThrowException, value) ==
    LET core == core_cast(ResultType, value)
    IN  IF /\ ~lt_is_arithmetic(ResultType)
           /\ ~lt_is_string(ResultType)
           /\ ResultType # "TYPE_VARIANT"
        THEN IF AllowThrowException THEN CastError("NotSupported", <<>>)
             ELSE Casted(<<NullCell>>)
        ELSE IF ResultType = "TYPE_VARIANT" THEN Casted(<<Cell(value)>>)
        ELSE IF ~core.ok
        THEN IF AllowThrowException THEN CastError("VariantError", core.appended)
             ELSE Casted(core.appended \o <<NullCell>>)
        ELSE Casted(core.appended)

-----------------------------------------------------------------------------
(* VariantValue(const Slice&) of util/variant_value.h.  A size_t is kept    *)
(* as four 16-bit limbs, the least significant first, so that slice.size - *)
(* sizeof(uint32_t) wraps as it does in 64 bits.                            *)

Bytes == {0, 1, 2, 255}

\* A length below 2^16 as a size_t.
size_t(n) == <<n, 0, 0, 0>>

\* *reinterpret_cast<const uint32_t*>(variant_raw), little-endian, promoted
\* to size_t for the comparison.
uint32_at(raw) == <<raw[1] + 256 * raw[2], raw[3] + 256 * raw[4], 0, 0>>

RECURSIVE size_t_minus_from(_, _, _, _)
size_t_minus_from(a, b, i, borrow) ==
    IF i > 4 THEN <<>>
    ELSE <<(a[i] - b[i] - borrow) % 65536>>
         \o size_t_minus_from(a, b, i + 1, IF a[i] - b[i] - borrow < 0 THEN 1 ELSE 0)

\* a - b in size_t: modulo 2^64.
size_t_minus(a, b) == size_t_minus_from(a, b, 1, 0)

RECURSIVE size_t_greater_from(_, _, _)
size_t_greater_from(a, b, i) ==
    IF i = 0 THEN FALSE
    ELSE IF a[i] # b[i] THEN a[i] > b[i]
    ELSE size_t_greater_from(a, b, i - 1)

\* a > b in size_t.
size_t_greater(a, b) == size_t_greater_from(a, b, 4)

\* load_metadata(variant): slices the metadata off the front of the variant
\* binary, or fails.  The lengths it can answer: 0 stands for the failure.
load_metadata(variant) == 0..Len(variant)

NotMade == [state |-> "none", outside |-> FALSE, declared |-> size_t(0),
            metadata_size |-> 0, value_size |-> 0]

\* The constructor threw std::runtime_error("Invalid variant size").
Thrown(outside, declared) ==
    [state |-> "thrown", outside |-> outside, declared |-> declared,
     metadata_size |-> 0, value_size |-> 0]

\* The constructor went on with memory that is not the buffer's, or with the
\* value of a failed StatusOr: what it builds is undefined.
Undefined(outside, declared) ==
    [state |-> "undefined", outside |-> outside, declared |-> declared,
     metadata_size |-> 0, value_size |-> 0]

Built(declared, metadata_size, value_size) ==
    [state |-> "built", outside |-> FALSE, declared |-> declared,
     metadata_size |-> metadata_size, value_size |-> value_size]

\* VariantValue(const Slice& slice): the outcomes.  The four bytes of the
\* prefix are read before the size is looked at; the bytes past the end of
\* a buffer shorter than that are whatever the memory holds.
VariantValue_Slice(bytes) ==
    UNION { LET raw == [i \in 1..4 |-> IF i <= Len(bytes) THEN bytes[i] ELSE past[i]]
                outside == Len(bytes) < 4
                variant_size == uint32_at(raw)
            IN  IF size_t_greater(variant_size,
                                  size_t_minus(size_t(Len(bytes)), size_t(4)))
                THEN {Thrown(outside, variant_size)}
                ELSE IF outside THEN {Undefined(TRUE, variant_size)}
                ELSE { IF m = 0 THEN Undefined(FALSE, variant_size)
                       ELSE Built(variant_size, m, variant_size[1] - m) :
                       m \in load_metadata(SubSeq(bytes, 5, 4 + variant_size[1])) }
          : past \in [(Len(bytes) + 1)..4 -> Bytes] }

-----------------------------------------------------------------------------
(* Function contexts *)

\* The function contexts: one for each fragment instance.
Ctxs == {1, 2}

\* The context of the specifications of one instance alone.
Solo == {1}

NULLPTR == 0

Scopes == {"FRAGMENT_LOCAL", "THREAD_LOCAL"}

\* The path argument of the expression: not a constant, the constant NULL,
\* or a constant text.
NotConstant == [const |-> FALSE, null |-> FALSE, text |-> <<>>]
ConstantNull == [const |-> TRUE, null |-> TRUE, text |-> <<>>]
Constant(text) == [const |-> TRUE, null |-> FALSE, text |-> text]

\* FunctionContext::is_notnull_constant_column(1).
is_notnull_constant_column(arg) == arg.const /\ ~arg.null

\* A faulty function state that is one slot for all the contexts: a context
\* reads the state another one has set.
get_function_state_Shared(c) ==
    IF \E d \in Ctxs : fn_state[d] # NULLPTR
    THEN fn_state[CHOOSE d \in Ctxs : fn_state[d] # NULLPTR]
    ELSE NULLPTR

\* FunctionContext::get_function_state(FRAGMENT_LOCAL).
get_function_state(c) == fn_state[c]

\* What reading a NativeVariantPath through a pointer to a deleted object can
\* give: the segments it held, or whatever the memory holds by then.
ReadAfterDelete(object) ==
    {object.variant_path, <<>>, <<ObjectExtraction(<<"k">>)>>, <<ArrayExtraction(0)>>}

\* A faulty get_or_parse_variant_segments that falls back to the stored path
\* of the call when the text does not parse, to test C2 against.
get_or_parse_variant_segments_Fallback(c, path_slice, stored) ==
    LET path_status == parse(path_slice)
    IN  IF get_function_state(c) # NULLPTR
        THEN {[ok |-> TRUE, segs |-> heap[get_function_state(c)].variant_path,
               parsed |-> FALSE, stored |-> stored, crashed |-> FALSE]}
        ELSE IF ~path_status.ok
        THEN {[ok |-> TRUE, segs |-> stored, parsed |-> TRUE,
               stored |-> stored, crashed |-> FALSE]}
        ELSE {[ok |-> TRUE, segs |-> path_status.segments, parsed |-> TRUE,
               stored |-> path_status.segments, crashed |-> FALSE]}

\* A faulty get_or_parse_variant_segments that parses into the stored path
\* of the call only while it is empty, and hands out what it holds after.
get_or_parse_variant_segments_Stale(c, path_slice, stored) ==
    LET path_status == parse(path_slice)
    IN  IF get_function_state(c) # NULLPTR
        THEN {[ok |-> TRUE, segs |-> heap[get_function_state(c)].variant_path,
               parsed |-> FALSE, stored |-> stored, crashed |-> FALSE]}
        ELSE IF stored # <<>>
        THEN {[ok |-> TRUE, segs |-> stored, parsed |-> FALSE,
               stored |-> stored, crashed |-> FALSE]}
        ELSE IF ~path_status.ok
        THEN {[ok |-> FALSE, segs |-> <<>>, parsed |-> TRUE,
               stored |-> stored, crashed |-> FALSE]}
        ELSE {[ok |-> TRUE, segs |-> path_status.segments, parsed |-> TRUE,
               stored |-> path_status.segments, crashed |-> FALSE]}

\* A faulty get_or_parse_variant_segments that does not look at the function
\* state and parses for every row, to test C10 against.
get_or_parse_variant_segments_AlwaysParse(c, path_slice, stored) ==
    LET path_status == parse(path_slice)
    IN  IF ~path_status.ok
        THEN {[ok |-> FALSE, segs |-> <<>>, parsed |-> TRUE,
               stored |-> stored, crashed |-> FALSE]}
        ELSE {[ok |-> TRUE, segs |-> path_status.segments, parsed |-> TRUE,
               stored |-> path_status.segments, crashed |-> FALSE]}

\* get_or_parse_variant_segments: the outcomes the call can have.  Each is
\* ok, the segments it points to, whether the parser ran, the stored_path of
\* the caller afterwards, and whether the process stopped in the call.
get_or_parse_variant_segments(c, path_slice, stored) ==
    LET cached == get_function_state(c)
    IN  IF cached # NULLPTR
        THEN IF heap[cached].live
             THEN {[ok |-> TRUE, segs |-> heap[cached].variant_path, parsed |-> FALSE,
                    stored |-> stored, crashed |-> FALSE]}
             ELSE {[ok |-> TRUE, segs |-> g, parsed |-> FALSE,
                    stored |-> stored, crashed |-> FALSE] :
                        g \in ReadAfterDelete(heap[cached])}
                  \cup {[ok |-> FALSE, segs |-> <<>>, parsed |-> FALSE,
                         stored |-> stored, crashed |-> TRUE]}
        ELSE LET path_status == parse(path_slice)
             IN  IF ~path_status.ok
                 THEN {[ok |-> FALSE, segs |-> <<>>, parsed |-> TRUE,
                        stored |-> stored, crashed |-> FALSE]}
                 ELSE {[ok |-> TRUE, segs |-> path_status.segments, parsed |-> TRUE,
                        stored |-> path_status.segments, crashed |-> FALSE]}

-----------------------------------------------------------------------------
(* The cells of the argument columns *)

\* A cell of the Variant column: null, or a VariantValue pointer that is
\* null, or a value with empty metadata and value, or bytes for which the
\* Variant constructor throws, or a value.
NullVariantCell == [null |-> TRUE, kind |-> "null", value |-> VNull]
NullPointerCell == [null |-> FALSE, kind |-> "nullptr", value |-> VNull]
EmptyCell == [null |-> FALSE, kind |-> "empty", value |-> VNull]
ThrowingCell == [null |-> FALSE, kind |-> "throws", value |-> VNull]
ValueCell(value) == [null |-> FALSE, kind |-> "value", value |-> value]

NullPathCell == [null |-> TRUE, text |-> <<>>]
PathCell(text) == [null |-> FALSE, text |-> text]

Column(cells) == [only_null |-> FALSE, cells |-> cells]
\* A column for which only_null() holds: n nulls.
OnlyNullColumn(cell, n) == [only_null |-> TRUE, cells |-> [i \in 1..n |-> cell]]

\* What was done for a row.
RowTrace(outcome, parsed, sought, cast, used) ==
    [outcome |-> outcome, parsed |-> parsed, sought |-> sought, cast |-> cast,
     used |-> used]

\* No context has been used.
QIdle ==
    /\ path_arg = [c \in Ctxs |-> NotConstant]
    /\ phase = [c \in Ctxs |-> "unused"]
    /\ fn_state = [c \in Ctxs |-> NULLPTR]
    /\ heap = <<>>
    /\ qpc = [c \in Ctxs |-> "idle"]
    /\ columns = [c \in Ctxs |-> <<>>]
    /\ row = [c \in Ctxs |-> 0]
    /\ result = [c \in Ctxs |-> <<>>]
    /\ status = [c \in Ctxs |-> "none"]
    /\ stored_path = [c \in Ctxs |-> <<>>]
    /\ trace = [c \in Ctxs |-> <<>>]
    /\ parse_calls = [c \in Ctxs |-> 0]
    /\ batches = [c \in Ctxs |-> 0]

\* No cast has been asked for.
CIdle ==
    /\ cast_value = VariantValue("none", VNull)
    /\ cast_type = "none"
    /\ cast_core = NotCast
    /\ cast_out = [policy \in BOOLEAN |-> NotCast]

\* No buffer has been given.
BIdle ==
    /\ slice = <<>>
    /\ made = NotMade

-----------------------------------------------------------------------------
(* Inputs of the parser *)

RECURSIVE TextsUpTo(_)
TextsUpTo(n) == IF n = 0 THEN {<<>>} ELSE [1..n -> Alphabet] \cup TextsUpTo(n - 1)

\* Paths of the tests and longer paths the exhaustive texts do not reach.
ExtraPaths ==
    { <<"$", ".", "n", "a">>,
      <<"$", "[", "1", "2", "3", "]">>,
      <<"$", "[", SQ, "k", SQ, "]">>,
      <<"$", "[", DQ, "k", DQ, "]">>,
      <<"$", "[", SQ, "1", "0", SQ, "]">>,
      <<"$", "[", DQ, "1", "0", DQ, "]">>,
      <<"$", ".", "a", "[", "0", "]", ".", "b", "[", SQ, "k", SQ, "]">>,
      <<"$", ".", "a", "[", DQ, "k", "_", "1", DQ, "]", "[", "1", "]">>,
      <<"$", "[", SQ, "a", DQ, "b", SQ, "]">>,
      <<"$", "[", SQ, "a", BS, SQ, "b", SQ, "]">>,
      <<"$", "[", DQ, BS, "n", BS, BS, BS, "x", DQ, "]">>,
      <<"$", "[", SQ, "a", BS>>,
      <<"$", ".", "a", ".", ".", "b">>,
      <<"$", ".", "a", "[">>,
      <<"$", "[", SQ, "a", "b", "k">>,
      <<"$", "[", "a", "b", "k", "]">>,
      <<"$", ".", "a", "-", "b">>,
      <<"$", "[", "0", "0", "0", "0", "0", "0", "0", "0", "0", "0", "0", "7", "]">>,
      <<"$", "[", "2", "1", "4", "7", "4", "8", "3", "6", "4", "7", "]">>,
      <<"$", "[", "2", "1", "4", "7", "4", "8", "3", "6", "4", "8", "]">>,
      <<"$", ".", "a", "[", "9", "9", "9", "9", "9", "9", "9", "9", "9", "9", "9", "]">> }

\* A text that does not start with '$' is rejected at the root whatever
\* follows: those are taken up to MaxUnrooted characters only.
IsPathText(t) ==
    \/ \E rest \in TextsUpTo(MaxLen - 1) : t = <<"$">> \o rest
    \/ t \in TextsUpTo(MaxUnrooted) \cup ExtraPaths

-----------------------------------------------------------------------------
(* One parser object, parse() step by step *)

NotCalled == [ok |-> FALSE, value |-> NoVariant, applied |-> 0, err |-> "not called"]

\* parse() has not returned yet.
NoResult == [ok |-> FALSE, segments |-> <<>>, err |-> Err("not called", NoPos)]

PIdle ==
    /\ input = <<>>
    /\ pos = 0
    /\ segments = <<>>
    /\ ppc = "idle"
    /\ saved_pos = 0
    /\ perr = NoErr
    /\ tried = <<>>
    /\ starts = <<>>
    /\ first = NoResult

SIdle ==
    /\ seek_root = NoVariant
    /\ seek_path = <<>>
    /\ seek_result = NotCalled

PInit ==
    /\ IsPathText(input)
    /\ pos = 0
    /\ segments = <<>>
    /\ ppc = "idle"
    /\ saved_pos = 0
    /\ perr = NoErr
    /\ tried = <<>>
    /\ starts = <<>>
    /\ first = NoResult
    /\ SIdle
    /\ QIdle
    /\ CIdle
    /\ BIdle

\* parse(): _pos = 0 and the root anchor.
ParseRoot ==
    /\ ppc = "idle"
    /\ segments' = <<>>
    /\ IF parse_root(input, 0)
       THEN pos' = 1 /\ ppc' = "loop" /\ perr' = NoErr
       ELSE pos' = 0 /\ ppc' = "failed" /\ perr' = Err("Path must start with '$'", NoPos)
    /\ UNCHANGED <<input, saved_pos, tried, starts>>
    /\ UNCHANGED <<first, svars, qvars, cvars, bvars>>

\* The loop ends: return segments.
ParseReturn ==
    /\ ppc = "loop"
    /\ is_at_end(input, pos)
    /\ ppc' = "done"
    /\ UNCHANGED <<input, pos, segments, saved_pos, perr, tried, starts>>
    /\ UNCHANGED <<first, svars, qvars, cvars, bvars>>

\* parse_segment at a '.': parse_object_key.
SegmentDot ==
    /\ ppc = "loop"
    /\ ~is_at_end(input, pos)
    /\ peek(input, pos) = "."
    /\ LET r == parse_object_key(input, pos)
       IN  /\ pos' = r.pos
           /\ IF r.ok
              THEN segments' = Append(segments, r.seg) /\ ppc' = "loop" /\ perr' = NoErr
              ELSE segments' = segments /\ ppc' = "failed" /\ perr' = r.err
    /\ starts' = Append(starts, pos)
    /\ tried' = <<>>
    /\ UNCHANGED <<input, saved_pos>>
    /\ UNCHANGED <<first, svars, qvars, cvars, bvars>>

\* parse_segment at a '[': save the cursor.
SegmentBracket ==
    /\ ppc = "loop"
    /\ ~is_at_end(input, pos)
    /\ peek(input, pos) = "["
    /\ saved_pos' = pos
    /\ ppc' = "try_index"
    /\ starts' = Append(starts, pos)
    /\ tried' = <<>>
    /\ UNCHANGED <<input, pos, segments, perr>>
    /\ UNCHANGED <<first, svars, qvars, cvars, bvars>>

\* parse_segment at any other character.
SegmentUnexpected ==
    /\ ppc = "loop"
    /\ ~is_at_end(input, pos)
    /\ peek(input, pos) \notin {".", "["}
    /\ ppc' = "failed"
    /\ perr' = Err("Unexpected character", pos)
    /\ starts' = Append(starts, pos)
    /\ tried' = <<>>
    /\ UNCHANGED <<input, pos, segments, saved_pos>>
    /\ UNCHANGED <<first, svars, qvars, cvars, bvars>>

\* parse_array_index, and on failure the reset of the cursor.
TryArrayIndex ==
    /\ ppc = "try_index"
    /\ tried' = Append(tried, [production |-> "array_index", from |-> pos])
    /\ LET r == parse_array_index(input, pos)
       IN  IF r.ok
           THEN /\ segments' = Append(segments, r.seg)
                /\ pos' = r.pos
                /\ ppc' = "loop"
           ELSE /\ segments' = segments
                /\ pos' = RewindTo(saved_pos, r.pos)
                /\ ppc' = "try_quoted"
    /\ UNCHANGED <<input, saved_pos, perr, starts>>
    /\ UNCHANGED <<first, svars, qvars, cvars, bvars>>

\* parse_quoted_key, and on failure the reset of the cursor and the error.
TryQuotedKey ==
    /\ ppc = "try_quoted"
    /\ tried' = Append(tried, [production |-> "quoted_key", from |-> pos])
    /\ LET r == parse_quoted_key(input, pos)
       IN  IF r.ok
           THEN /\ segments' = Append(segments, r.seg)
                /\ pos' = r.pos
                /\ ppc' = "loop"
                /\ perr' = NoErr
           ELSE /\ segments' = segments
                /\ pos' = RewindTo(saved_pos, r.pos)
                /\ ppc' = "failed"
                /\ perr' = Err("Failed to parse segment", RewindTo(saved_pos, r.pos))
    /\ UNCHANGED <<input, saved_pos, starts>>
    /\ UNCHANGED <<first, svars, qvars, cvars, bvars>>

PNext ==
    \/ ParseRoot
    \/ ParseReturn
    \/ SegmentDot
    \/ SegmentBracket
    \/ SegmentUnexpected
    \/ TryArrayIndex
    \/ TryQuotedKey

SpecParser == PInit /\ [][PNext]_vars

\* The texts termination is checked on: those that start with '$' up to
\* MaxFairLen characters, and the others up to MaxUnrooted characters.
IsFairText(t) ==
    \/ \E rest \in TextsUpTo(MaxFairLen - 1) : t = <<"$">> \o rest
    \/ t \in TextsUpTo(MaxUnrooted)

FInit ==
    /\ IsFairText(input)
    /\ pos = 0
    /\ segments = <<>>
    /\ ppc = "idle"
    /\ saved_pos = 0
    /\ perr = NoErr
    /\ tried = <<>>
    /\ starts = <<>>
    /\ first = NoResult
    /\ SIdle
    /\ QIdle
    /\ CIdle
    /\ BIdle

\* parse() runs on its thread to its return: a step that can be taken is
\* taken.
SpecParserFair == FInit /\ [][PNext]_vars /\ WF_vars(PNext)

\* What parse() returned, once it has.
ParseResult ==
    IF ppc = "done" THEN [ok |-> TRUE, segments |-> segments, err |-> NoErr]
    ELSE IF ppc = "failed" THEN [ok |-> FALSE, segments |-> <<>>, err |-> perr]
    ELSE NoResult

\* A faulty entry of parse() that leaves the cursor where it is.
reset_pos_Keep(p) == p

\* _pos = 0 at the entry of parse().
reset_pos(p) == 0

\* A second parse() on the object, after the first has returned: the cursor
\* is where the first call left it, the vector of segments is a new one.
ParseAgain ==
    /\ ppc \in {"done", "failed"}
    /\ first = NoResult
    /\ first' = ParseResult
    /\ segments' = <<>>
    /\ IF parse_root(input, reset_pos(pos))
       THEN pos' = reset_pos(pos) + 1 /\ ppc' = "loop" /\ perr' = NoErr
       ELSE /\ pos' = reset_pos(pos)
            /\ ppc' = "failed"
            /\ perr' = Err("Path must start with '$'", NoPos)
    /\ tried' = <<>>
    /\ starts' = <<>>
    /\ UNCHANGED <<input, saved_pos>>
    /\ UNCHANGED <<svars, qvars, cvars, bvars>>

RNext ==
    \/ PNext
    \/ ParseAgain

\* One parser object on which parse() is called twice.
SpecReparse == PInit /\ [][RNext]_vars

\* The step machine and parse() agree on the result.
ParserAgrees ==
    /\ ppc = "done" => parse(input) = [ok |-> TRUE, segments |-> segments, err |-> NoErr]
    /\ ppc = "failed" => parse(input) = [ok |-> FALSE, segments |-> <<>>, err |-> perr]

-----------------------------------------------------------------------------
(* One call of seek *)

Key(c) == <<c>>

Metadata == "m1"

InnerObject == VObject(Key("b") :> VString("nested_value"))

NestedArray == VArray(<<InnerObject, VInt("INT8", 2), VArray(<<VBool(TRUE)>>)>>)

RootObject ==
    VObject(Key("a") :> NestedArray @@ Key("b") :> InnerObject
            @@ Key("k") :> VInt("INT8", 1) @@ Key("n") :> VNull
            @@ Key("x") :> VCorrupt)

\* The values a root document holds in this model.
Values ==
    { VNull, VBool(TRUE), VInt("INT8", 42), VString("hello"), VCorrupt,
      VArray(<<>>), VArray(<<VInt("INT8", 1), VInt("INT8", 2)>>),
      NestedArray, InnerObject, RootObject }

SeekSegments ==
    { ObjectExtraction(Key("a")), ObjectExtraction(Key("b")),
      ObjectExtraction(Key("k")), ObjectExtraction(Key("x")),
      ArrayExtraction(0), ArrayExtraction(1), ArrayExtraction(2), ArrayExtraction(3) }

RECURSIVE SegmentsUpTo(_)
SegmentsUpTo(n) ==
    IF n = 0 THEN {<<>>} ELSE [1..n -> SeekSegments] \cup SegmentsUpTo(n - 1)

SInit ==
    /\ seek_root \in {Variant(Metadata, v) : v \in Values}
    /\ seek_path \in SegmentsUpTo(MaxSegments)
    /\ seek_result = NotCalled
    /\ PIdle
    /\ QIdle
    /\ CIdle
    /\ BIdle

SeekCall ==
    /\ seek_result = NotCalled
    /\ seek_result' = seek(seek_root, seek_path)
    /\ UNCHANGED <<seek_root, seek_path, pvars, qvars, cvars, bvars>>

SNext == SeekCall

SpecSeek == SInit /\ [][SNext]_vars

-----------------------------------------------------------------------------
(* The function contexts and their calls of variant_query *)

\* A second root document: it has no key a, and its k does not decode.
SparseObject == VObject(Key("b") :> VString("nested_value") @@ Key("k") :> VCorrupt)

VariantCells ==
    { NullVariantCell, NullPointerCell, EmptyCell, ThrowingCell,
      ValueCell(RootObject), ValueCell(SparseObject) }

RootPath == <<"$">>
KeyPath == <<"$", ".", "k">>
IndexPath == <<"$", ".", "a", "[", "3", "]">>
DeepPath == <<"$", ".", "b", ".", "b", "[", "0", "]">>
InvalidPath == <<"$", ".", ".", "a">>

QueryPaths == {RootPath, KeyPath, IndexPath, DeepPath, InvalidPath}

PathCells == {NullPathCell} \cup {PathCell(t) : t \in QueryPaths}

PathArgs == {NotConstant, ConstantNull} \cup {Constant(t) : t \in QueryPaths}

\* The path column of n rows of a context: a constant argument gives the
\* same cell in every row.
PathColumns(c, n) ==
    IF path_arg[c].const
    THEN IF path_arg[c].null THEN {OnlyNullColumn(NullPathCell, n)}
         ELSE {Column([i \in 1..n |-> PathCell(path_arg[c].text)])}
    ELSE {Column(cells) : cells \in [1..n -> PathCells]}

VariantColumns(n) ==
    {Column(cells) : cells \in [1..n -> VariantCells]}
    \cup (IF n > 0 THEN {OnlyNullColumn(NullVariantCell, n)} ELSE {})

\* The calls with another number of arguments than two.
OtherArities(c) ==
    LET v == Column(<<ValueCell(RootObject)>>)
        o == OnlyNullColumn(NullVariantCell, 1)
    IN  { <<>>, <<v>>, <<o>> }
        \cup {<<v, p, p>> : p \in PathColumns(c, 1)}
        \cup {<<v, p, o>> : p \in PathColumns(c, 1)}

\* The process runs: no call has stopped it.
Alive == \A c \in Ctxs : qpc[c] # "crashed"

\* The number of times an object has been deleted, counted up to MaxDeletes.
Deleted(n) == IF n < MaxDeletes THEN n + 1 ELSE MaxDeletes

Count(n) == IF n < MaxParseCalls THEN n + 1 ELSE MaxParseCalls

\* preload_variant_segments(context, scope).  The framework prepares a
\* context for FRAGMENT_LOCAL, then for THREAD_LOCAL; a non-OK status fails
\* the fragment.
Preload(c, scope) ==
    /\ Alive
    /\ qpc[c] = "idle"
    /\ \/ scope = "FRAGMENT_LOCAL" /\ phase[c] = "created"
       \/ scope = "THREAD_LOCAL" /\ phase[c] = "fragment_prepared"
    /\ LET next == IF scope = "FRAGMENT_LOCAL" THEN "fragment_prepared" ELSE "open"
       IN  IF scope # "FRAGMENT_LOCAL" \/ ~is_notnull_constant_column(path_arg[c])
           THEN /\ phase' = [phase EXCEPT ![c] = next]
                /\ UNCHANGED <<fn_state, heap, parse_calls>>
           ELSE LET variant_path_status == parse(path_arg[c].text)
                IN  /\ parse_calls' = [parse_calls EXCEPT ![c] = Count(@)]
                    /\ IF ~variant_path_status.ok
                       THEN /\ phase' = [phase EXCEPT ![c] = "failed"]
                            /\ UNCHANGED <<fn_state, heap>>
                       ELSE /\ heap' = Append(heap, [live |-> TRUE, deletes |-> 0,
                                                     variant_path |-> variant_path_status.segments])
                            /\ fn_state' = [fn_state EXCEPT ![c] = Len(heap) + 1]
                            /\ phase' = [phase EXCEPT ![c] = next]
    /\ UNCHANGED <<path_arg, qpc, columns, row, result, status, stored_path, trace, batches>>
    /\ UNCHANGED <<pvars, svars, cvars, bvars>>

\* clear_variant_segments(context, scope).  The framework closes a context
\* for THREAD_LOCAL, then for FRAGMENT_LOCAL.  The object is deleted; the
\* function state keeps pointing to it.
Clear(c, scope) ==
    /\ Alive
    /\ qpc[c] = "idle"
    /\ \/ scope = "THREAD_LOCAL" /\ phase[c] = "open"
       \/ scope = "FRAGMENT_LOCAL" /\ phase[c] = "thread_closed"
    /\ IF scope = "FRAGMENT_LOCAL" /\ get_function_state(c) # NULLPTR
       THEN heap' = [heap EXCEPT ![get_function_state(c)].live = FALSE,
                                 ![get_function_state(c)].deletes = Deleted(@)]
       ELSE UNCHANGED heap
    /\ phase' = [phase EXCEPT ![c] = IF scope = "THREAD_LOCAL" THEN "thread_closed" ELSE "closed"]
    /\ UNCHANGED <<path_arg, fn_state, qpc, columns, row, result, status, stored_path,
                   trace, parse_calls, batches>>
    /\ UNCHANGED <<pvars, svars, cvars, bvars>>

\* RETURN_IF_COLUMNS_ONLY_NULL: some argument column holds only nulls.
columns_only_null(cols) == \E i \in 1..Len(cols) : cols[i].only_null

\* columns[0]->size().
num_rows(cols) == Len(cols[1].cells)

\* variant_query(context, columns) up to the loop of
\* _do_variant_query<TYPE_VARIANT>.
variant_query(c, cols) ==
    /\ columns' = [columns EXCEPT ![c] = cols]
    /\ IF columns_only_null(cols)
       THEN /\ result' = [result EXCEPT ![c] = [i \in 1..num_rows(cols) |-> NullCell]]
            /\ status' = [status EXCEPT ![c] = "OK"]
            /\ qpc' = [qpc EXCEPT ![c] = "returned"]
       ELSE IF Len(cols) # 2
            THEN /\ result' = [result EXCEPT ![c] = <<>>]
                 /\ status' = [status EXCEPT ![c] = "InvalidArgument"]
                 /\ qpc' = [qpc EXCEPT ![c] = "returned"]
            ELSE /\ result' = [result EXCEPT ![c] = <<>>]
                 /\ status' = [status EXCEPT ![c] = "none"]
                 /\ qpc' = [qpc EXCEPT ![c] = "loop"]
    /\ row' = [row EXCEPT ![c] = 0]
    /\ stored_path' = [stored_path EXCEPT ![c] = <<>>]
    /\ trace' = [trace EXCEPT ![c] = <<>>]
    /\ batches' = [batches EXCEPT ![c] = @ + 1]
    /\ UNCHANGED <<path_arg, phase, fn_state, heap, parse_calls>>
    /\ UNCHANGED <<pvars, svars, cvars, bvars>>

\* A call of variant_query on an open context, with two columns of the same
\* number of rows or with another number of columns.
VariantQuery(c) ==
    /\ Alive
    /\ qpc[c] = "idle"
    /\ phase[c] = "open"
    /\ batches[c] < MaxBatches
    /\ \/ \E n \in 0..MaxRows : \E v \in VariantColumns(n) : \E p \in PathColumns(c, n) :
             variant_query(c, <<v, p>>)
       \/ \E cols \in OtherArities(c) : variant_query(c, cols)

\* A faulty is_null that finds no cell null, to test C1 against.
is_null_Never(column, r) == FALSE

\* ColumnViewer::is_null(row).
is_null(column, r) == column.cells[r].null

\* What one iteration of the loop can do.
RowOutcome(appended, stored, t) == [appended |-> appended, stored |-> stored, trace |-> t]

\* From the try block on, for a cell that holds a value, in the
\* instantiation for TYPE_VARIANT (the one variant_query makes): the seek,
\* the printing of the value found, the conversion to the owned form.  The
\* printing reads the result of to_value() through operator-> without asking
\* ok(): on an error the StatusOr stops the process, or the read gives
\* whatever is there and the iteration goes on, or the printing throws.
convert_row(cell, segs, parsed, stored) ==
    LET variant == Variant(Metadata, cell.value)
        variant_result == seek(variant, segs)
    IN  IF ~variant_result.ok
        THEN {RowOutcome(<<NullCell>>, stored,
                         RowTrace("seek_failure", parsed, TRUE, FALSE, segs))}
        ELSE LET printed == to_value(variant_result.value)
                 variant_value_result == to_value(variant_result.value)
                 converted ==
                     IF ~variant_value_result.ok
                     THEN RowOutcome(<<NullCell>>, stored,
                              RowTrace("convert_failure", parsed, TRUE, TRUE, segs))
                     ELSE RowOutcome(<<Cell([variant |-> variant_value_result.value])>>,
                              stored, RowTrace("success", parsed, TRUE, TRUE, segs))
             IN  IF printed.ok THEN {converted}
                 ELSE { converted,
                        RowOutcome(<<NullCell>>, stored,
                                   RowTrace("exception", parsed, TRUE, FALSE, segs)),
                        RowOutcome(<<>>, stored,
                                   RowTrace("crash", parsed, TRUE, FALSE, segs)) }

\* The body of the for loop of _do_variant_query<TYPE_VARIANT> for row r.
do_variant_query_row(c, r) ==
    LET variant_cell == columns[c][1].cells[r]
        path_cell == columns[c][2].cells[r]
        stored == stored_path[c]
    IN  IF is_null(columns[c][1], r) \/ is_null(columns[c][2], r)
        THEN {RowOutcome(<<NullCell>>, stored,
                         RowTrace("null_input", FALSE, FALSE, FALSE, <<>>))}
        ELSE UNION {
               IF g.crashed
               THEN {RowOutcome(<<>>, g.stored,
                                RowTrace("crash", g.parsed, FALSE, FALSE, <<>>))}
               ELSE IF ~g.ok
               THEN {RowOutcome(<<NullCell>>, g.stored,
                                RowTrace("parse_error", g.parsed, FALSE, FALSE, <<>>))}
               ELSE IF variant_cell.kind = "nullptr"
               THEN {RowOutcome(<<NullCell>>, g.stored,
                                RowTrace("null_pointer", g.parsed, FALSE, FALSE, g.segs))}
               ELSE IF variant_cell.kind = "empty"
               THEN {RowOutcome(<<NullCell>>, g.stored,
                                RowTrace("empty_variant", g.parsed, FALSE, FALSE, g.segs))}
               ELSE IF variant_cell.kind = "throws"
               THEN {RowOutcome(<<NullCell>>, g.stored,
                                RowTrace("exception", g.parsed, FALSE, FALSE, g.segs))}
               ELSE convert_row(variant_cell, g.segs, g.parsed, g.stored)
               : g \in get_or_parse_variant_segments(c, path_cell.text, stored) }

\* One iteration of the loop of _do_variant_query<TYPE_VARIANT>.
QueryRow(c) ==
    /\ Alive
    /\ qpc[c] = "loop"
    /\ row[c] < num_rows(columns[c])
    /\ \E o \in do_variant_query_row(c, row[c] + 1) :
          /\ result' = [result EXCEPT ![c] = @ \o o.appended]
          /\ stored_path' = [stored_path EXCEPT ![c] = o.stored]
          /\ trace' = [trace EXCEPT ![c] = Append(@, o.trace)]
          /\ parse_calls' = [parse_calls EXCEPT ![c] = IF o.trace.parsed THEN Count(@) ELSE @]
          /\ IF o.trace.outcome = "crash"
             THEN /\ qpc' = [qpc EXCEPT ![c] = "crashed"]
                  /\ UNCHANGED row
             ELSE /\ row' = [row EXCEPT ![c] = @ + 1]
                  /\ UNCHANGED qpc
    /\ UNCHANGED <<path_arg, phase, fn_state, heap, columns, status, batches>>
    /\ UNCHANGED <<pvars, svars, cvars, bvars>>

\* The loop is over: result.build(...), returned with an OK status.
QueryBuild(c) ==
    /\ Alive
    /\ qpc[c] = "loop"
    /\ row[c] >= num_rows(columns[c])
    /\ qpc' = [qpc EXCEPT ![c] = "returned"]
    /\ status' = [status EXCEPT ![c] = "OK"]
    /\ UNCHANGED <<path_arg, phase, fn_state, heap, columns, row, result, stored_path,
                   trace, parse_calls, batches>>
    /\ UNCHANGED <<pvars, svars, cvars, bvars>>

\* The caller has taken the column or the error; the locals of the call are
\* gone.
ReleaseResult(c) ==
    /\ Alive
    /\ qpc[c] = "returned"
    /\ qpc' = [qpc EXCEPT ![c] = "idle"]
    /\ columns' = [columns EXCEPT ![c] = <<>>]
    /\ row' = [row EXCEPT ![c] = 0]
    /\ result' = [result EXCEPT ![c] = <<>>]
    /\ status' = [status EXCEPT ![c] = "none"]
    /\ stored_path' = [stored_path EXCEPT ![c] = <<>>]
    /\ trace' = [trace EXCEPT ![c] = <<>>]
    /\ UNCHANGED <<path_arg, phase, fn_state, heap, parse_calls, batches>>
    /\ UNCHANGED <<pvars, svars, cvars, bvars>>

Init ==
    /\ PIdle
    /\ SIdle
    /\ CIdle
    /\ BIdle
    /\ path_arg \in [Ctxs -> PathArgs]
    /\ \A c \in Ctxs \ Solo : path_arg[c] = NotConstant
    /\ phase = [c \in Ctxs |-> IF c \in Solo THEN "created" ELSE "unused"]
    /\ fn_state = [c \in Ctxs |-> NULLPTR]
    /\ heap = <<>>
    /\ qpc = [c \in Ctxs |-> "idle"]
    /\ columns = [c \in Ctxs |-> <<>>]
    /\ row = [c \in Ctxs |-> 0]
    /\ result = [c \in Ctxs |-> <<>>]
    /\ status = [c \in Ctxs |-> "none"]
    /\ stored_path = [c \in Ctxs |-> <<>>]
    /\ trace = [c \in Ctxs |-> <<>>]
    /\ parse_calls = [c \in Ctxs |-> 0]
    /\ batches = [c \in Ctxs |-> 0]

Next ==
    \/ \E c \in Solo, scope \in Scopes : Preload(c, scope)
    \/ \E c \in Solo : VariantQuery(c)
    \/ \E c \in Solo : QueryRow(c)
    \/ \E c \in Solo : QueryBuild(c)
    \/ \E c \in Solo : ReleaseResult(c)
    \/ \E c \in Solo, scope \in Scopes : Clear(c, scope)

Spec == Init /\ [][Next]_vars

-----------------------------------------------------------------------------
(* The same calls in any order: nothing in variant_functions.cpp asks that  *)
(* preload comes first, clear last, or either one once.                     *)

\* preload_variant_segments(context, scope), whenever no call runs.  A
\* second preload sets the function state to a new object; the one before
\* stays allocated.
PreloadCall(c, scope) ==
    /\ Alive
    /\ qpc[c] = "idle"
    /\ IF scope # "FRAGMENT_LOCAL" \/ ~is_notnull_constant_column(path_arg[c])
       THEN UNCHANGED <<fn_state, heap, parse_calls>>
       ELSE LET variant_path_status == parse(path_arg[c].text)
            IN  /\ Len(heap) < MaxObjects
                /\ parse_calls' = [parse_calls EXCEPT ![c] = Count(@)]
                /\ IF ~variant_path_status.ok
                   THEN UNCHANGED <<fn_state, heap>>
                   ELSE /\ heap' = Append(heap, [live |-> TRUE, deletes |-> 0,
                                                 variant_path |-> variant_path_status.segments])
                        /\ fn_state' = [fn_state EXCEPT ![c] = Len(heap) + 1]
    /\ UNCHANGED <<path_arg, phase, qpc, columns, row, result, status, stored_path,
                   trace, batches>>
    /\ UNCHANGED <<pvars, svars, cvars, bvars>>

\* clear_variant_segments(context, scope), whenever no call runs.  The
\* object is deleted and the function state keeps pointing to it; deleting
\* it once more either goes unnoticed or stops the process.
ClearCall(c, scope) ==
    /\ Alive
    /\ qpc[c] = "idle"
    /\ IF scope = "FRAGMENT_LOCAL" /\ get_function_state(c) # NULLPTR
       THEN IF heap[get_function_state(c)].live
            THEN /\ heap' = [heap EXCEPT ![get_function_state(c)].live = FALSE,
                                          ![get_function_state(c)].deletes = Deleted(@)]
                 /\ UNCHANGED qpc
            ELSE /\ heap' = [heap EXCEPT ![get_function_state(c)].deletes = Deleted(@)]
                 /\ \/ UNCHANGED qpc
                    \/ qpc' = [qpc EXCEPT ![c] = "crashed"]
       ELSE UNCHANGED <<heap, qpc>>
    /\ UNCHANGED <<path_arg, phase, fn_state, columns, row, result, status, stored_path,
                   trace, parse_calls, batches>>
    /\ UNCHANGED <<pvars, svars, cvars, bvars>>

InitCalls ==
    /\ PIdle
    /\ SIdle
    /\ CIdle
    /\ BIdle
    /\ path_arg \in [Ctxs -> PathArgs]
    /\ \A c \in Ctxs \ Solo : path_arg[c] = NotConstant
    /\ phase = [c \in Ctxs |-> IF c \in Solo THEN "open" ELSE "unused"]
    /\ fn_state = [c \in Ctxs |-> NULLPTR]
    /\ heap = <<>>
    /\ qpc = [c \in Ctxs |-> "idle"]
    /\ columns = [c \in Ctxs |-> <<>>]
    /\ row = [c \in Ctxs |-> 0]
    /\ result = [c \in Ctxs |-> <<>>]
    /\ status = [c \in Ctxs |-> "none"]
    /\ stored_path = [c \in Ctxs |-> <<>>]
    /\ trace = [c \in Ctxs |-> <<>>]
    /\ parse_calls = [c \in Ctxs |-> 0]
    /\ batches = [c \in Ctxs |-> 0]

NextCalls ==
    \/ \E c \in Solo, scope \in Scopes : PreloadCall(c, scope)
    \/ \E c \in Solo : VariantQuery(c)
    \/ \E c \in Solo : QueryRow(c)
    \/ \E c \in Solo : QueryBuild(c)
    \/ \E c \in Solo : ReleaseResult(c)
    \/ \E c \in Solo, scope \in Scopes : ClearCall(c, scope)

SpecCalls == InitCalls /\ [][NextCalls]_vars

-----------------------------------------------------------------------------
(* Two fragment instances on two threads, each with its own context *)

ThreadPaths == {RootPath, KeyPath, InvalidPath}

ThreadPathArgs == {NotConstant} \cup {Constant(t) : t \in ThreadPaths}

\* The batches of an instance: two rows of values, and the constant path
\* in both rows or a path of its own in each row.
ThreadVariantColumns ==
    {Column(<<ValueCell(RootObject), ValueCell(v)>>) : v \in {RootObject, SparseObject}}

ThreadPathColumns(c) ==
    IF path_arg[c].const THEN PathColumns(c, 2)
    ELSE {Column(<<PathCell(a), PathCell(b)>>) : a, b \in ThreadPaths}

\* The one call of variant_query an instance makes on its open context.
ThreadQuery(c) ==
    /\ Alive
    /\ qpc[c] = "idle"
    /\ phase[c] = "open"
    /\ batches[c] = 0
    /\ \E v \in ThreadVariantColumns : \E p \in ThreadPathColumns(c) :
          variant_query(c, <<v, p>>)

InitThreads ==
    /\ PIdle
    /\ SIdle
    /\ CIdle
    /\ BIdle
    /\ path_arg \in [Ctxs -> ThreadPathArgs]
    /\ phase = [c \in Ctxs |-> "created"]
    /\ fn_state = [c \in Ctxs |-> NULLPTR]
    /\ heap = <<>>
    /\ qpc = [c \in Ctxs |-> "idle"]
    /\ columns = [c \in Ctxs |-> <<>>]
    /\ row = [c \in Ctxs |-> 0]
    /\ result = [c \in Ctxs |-> <<>>]
    /\ status = [c \in Ctxs |-> "none"]
    /\ stored_path = [c \in Ctxs |-> <<>>]
    /\ trace = [c \in Ctxs |-> <<>>]
    /\ parse_calls = [c \in Ctxs |-> 0]
    /\ batches = [c \in Ctxs |-> 0]

\* A step of one of the threads: the framework's calls on its context in
\* their order, and the iterations of its loop one by one.
NextThreads ==
    \/ \E c \in Ctxs, scope \in Scopes : Preload(c, scope)
    \/ \E c \in Ctxs : ThreadQuery(c)
    \/ \E c \in Ctxs : QueryRow(c)
    \/ \E c \in Ctxs : QueryBuild(c)
    \/ \E c \in Ctxs : ReleaseResult(c)
    \/ \E c \in Ctxs, scope \in Scopes : Clear(c, scope)

SpecThreads == InitThreads /\ [][NextThreads]_vars

-----------------------------------------------------------------------------
(* The casts of one resolved value.  Init draws the value and the result   *)
(* type; the core cast for the type and cast_variant_value_to under each   *)
(* policy are then called, each on a ColumnBuilder of its own.             *)

TrueText == <<"t", "r", "u", "e">>
FalseText == <<"f", "a", "l", "s", "e">>

\* The texts of the String values.
CastTexts ==
    { <<>>, <<"0">>, <<"1">>, <<"0", "0">>, <<"1", "2">>, <<"-", "1">>, <<"+", "0">>,
      <<"-">>, <<"1", "a">>, TrueText, FalseText, <<"t">>, <<"a", "b", "k">>,
      <<"9", "9", "9", "9", "9", "9", "9", "9", "9", "9">> }

\* The resolved values: every type the casts tell apart, the integers at and
\* around the limits of the narrower targets.
CastValues ==
    {VNull, VBool(TRUE), VBool(FALSE), VCorrupt, VArray(<<>>), InnerObject}
    \cup {VInt("INT8", n) : n \in {-128, -1, 0, 1, 127}}
    \cup {VInt("INT16", n) : n \in {-32768, -129, 128, 255, 256, 32767}}
    \cup {VInt("INT32", n) : n \in {-2147483647 - 1, -32769, 32768, 65541, 2147483647}}
    \cup {VInt("INT64", n) : n \in {-2147483647 - 1, -65536, 7, 65535, 2147483647}}
    \cup {VTruncated(t) : t \in IntegerTypes \cup {"STRING"}}
    \cup {VString(t) : t \in CastTexts}
    \cup {VOther(t) : t \in {"FLOAT", "DOUBLE", "DECIMAL4", "DATE", "BINARY"}}

\* The result types: the targets of the casts and one that has no cast.
LogicalTypes ==
    {"TYPE_BOOLEAN", "TYPE_TINYINT", "TYPE_SMALLINT", "TYPE_INT", "TYPE_BIGINT",
     "TYPE_DOUBLE", "TYPE_VARCHAR", "TYPE_VARIANT", "TYPE_DATE"}

HasCoreCast(ResultType) == lt_is_arithmetic(ResultType) \/ lt_is_string(ResultType)

CInit ==
    /\ cast_value \in {VariantValue(Metadata, v) : v \in CastValues}
    /\ cast_type \in LogicalTypes
    /\ cast_core = NotCast
    /\ cast_out = [policy \in BOOLEAN |-> NotCast]
    /\ PIdle
    /\ SIdle
    /\ QIdle
    /\ BIdle

\* cast_variant_to_bool, cast_variant_to_arithmetic<ResultType> or
\* cast_variant_to_string on the value.
CastCore ==
    /\ HasCoreCast(cast_type)
    /\ cast_core = NotCast
    /\ cast_core' = core_cast(cast_type, cast_value)
    /\ UNCHANGED <<cast_value, cast_type, cast_out>>
    /\ UNCHANGED <<pvars, svars, qvars, bvars>>

\* cast_variant_value_to<ResultType, AllowThrowException> on the value.
CastValueTo(AllowThrowException) ==
    /\ cast_type \in LogicalTypes
    /\ cast_out[AllowThrowException] = NotCast
    /\ cast_out' = [cast_out EXCEPT ![AllowThrowException] =
                        cast_variant_value_to(cast_type, AllowThrowException, cast_value)]
    /\ UNCHANGED <<cast_value, cast_type, cast_core>>
    /\ UNCHANGED <<pvars, svars, qvars, bvars>>

CNext ==
    \/ CastCore
    \/ \E AllowThrowException \in BOOLEAN : CastValueTo(AllowThrowException)

SpecCast == CInit /\ [][CNext]_vars

-----------------------------------------------------------------------------
(* One VariantValue built from a serialized buffer.  Init draws the bytes. *)

RECURSIVE SlicesUpTo(_)
SlicesUpTo(n) == IF n = 0 THEN {<<>>} ELSE [1..n -> Bytes] \cup SlicesUpTo(n - 1)

BInit ==
    /\ slice \in SlicesUpTo(MaxSlice)
    /\ made = NotMade
    /\ PIdle
    /\ SIdle
    /\ QIdle
    /\ CIdle

Construct ==
    /\ made = NotMade
    /\ made' \in VariantValue_Slice(slice)
    /\ UNCHANGED slice
    /\ UNCHANGED <<pvars, svars, qvars, cvars>>

BNext == Construct

SpecSlice == BInit /\ [][BNext]_vars

-----------------------------------------------------------------------------
(* Properties of the parser, under SpecParser *)

KeyChars == Letters \cup Digits
Quotes == {SQ, DQ}

Finished == ppc \in {"done", "failed"}

\* Where segment i of the parse at hand begins and ends in the input.
SegFrom(i) == starts[i]
SegTo(i) == IF i < Len(starts) THEN starts[i + 1] ELSE Len(input)

\* C6: parse succeeds only if '$' was matched at offset 0 and the cursor then
\* reached the end of the input through complete segments, each begun at a '.'
\* or a '[' and each ended where the next begins; no prefix of the input is
\* ever returned as a success.  "$" alone gives no segment, every other
\* successful parse gives at least one.
C6_ParseConsumesAll ==
    ppc = "done" =>
        /\ Len(input) >= 1 /\ input[1] = "$"
        /\ pos = Len(input)
        /\ Len(segments) = Len(starts)
        /\ \A i \in 1..Len(starts) :
              /\ input[SegFrom(i) + 1] \in {".", "["}
              /\ SegFrom(i) < SegTo(i)
              /\ SegFrom(i) = IF i = 1 THEN 1 ELSE SegTo(i - 1)
        /\ (segments = <<>>) <=> (input = <<"$">>)
        /\ \A n \in 0..(Len(input) - 1) :
              LET r == parse(SubSeq(input, 1, n))
              IN  r.ok => r.segments # segments

C6_Witness ==
    /\ ppc = "done"
    /\ Len(segments) = 2
    /\ parse(SubSeq(input, 1, starts[2])).ok

\* C7's shapes, read at the place p where a segment is to begin.
NoLater(in, p, c) == \A i \in (p + 2)..Len(in) : in[i] # c

\* The run of backslashes that ends just before index i.
RECURSIVE BackslashRun(_, _)
BackslashRun(in, i) ==
    IF i >= 2 /\ in[i - 1] = BS THEN 1 + BackslashRun(in, i - 1) ELSE 0

DotWithoutKey(in, p) ==
    /\ in[p + 1] = "."
    /\ (p + 2 > Len(in) \/ in[p + 2] \notin KeyChars)

UnterminatedBracket(in, p) == in[p + 1] = "[" /\ NoLater(in, p, "]")

EmptyBrackets(in, p) == in[p + 1] = "[" /\ p + 2 <= Len(in) /\ in[p + 2] = "]"

\* '[' content ']' with a content that is neither digits nor begun by a quote.
NeitherIndexNorQuoted(in, p) ==
    /\ in[p + 1] = "["
    /\ \E j \in (p + 3)..Len(in) :
          /\ in[j] = "]"
          /\ \A i \in (p + 2)..(j - 1) : in[i] # "]"
          /\ in[p + 2] \notin Quotes
          /\ \E i \in (p + 2)..(j - 1) : in[i] \notin Digits

\* '[' quote ... with no later occurrence of that quote that is not escaped.
UnclosedQuote(in, p) ==
    /\ in[p + 1] = "["
    /\ p + 2 <= Len(in)
    /\ in[p + 2] \in Quotes
    /\ \A i \in (p + 3)..Len(in) :
          in[i] = in[p + 2] =>
              BackslashRun(SubSeq(in, p + 3, Len(in)), i - (p + 2)) % 2 = 1

MalformedAt(in, p) ==
    \/ DotWithoutKey(in, p)
    \/ UnterminatedBracket(in, p)
    \/ EmptyBrackets(in, p)
    \/ NeitherIndexNorQuoted(in, p)
    \/ UnclosedQuote(in, p)

\* C7: the empty text, a text that does not begin with '$', and a text with
\* one of the malformed shapes where a segment is to begin are never parsed
\* with success; the parse that fails returns a non-OK status and no segment.
C7_MalformedRejected ==
    /\ ppc = "done" =>
          /\ input # <<>>
          /\ input[1] = "$"
          /\ \A i \in 1..Len(starts) : ~MalformedAt(input, starts[i])
    /\ (starts # <<>> /\ MalformedAt(input, starts[Len(starts)])) =>
          ppc \in {"try_index", "try_quoted", "failed"}
    /\ ppc = "failed" => perr # NoErr /\ ~parse(input).ok /\ parse(input).segments = <<>>

C7_Witness ==
    /\ ppc = "failed"
    /\ Len(starts) = 2
    /\ UnclosedQuote(input, starts[2])

-----------------------------------------------------------------------------
\* '[' digits ']' at p, and '[' quote digits quote ']' at p.
BracketDigitsTo(in, p, j) ==
    /\ in[p + 1] = "["
    /\ j >= p + 3 /\ j <= Len(in)
    /\ in[j] = "]"
    /\ \A i \in (p + 2)..(j - 1) : in[i] \in Digits

BracketDigits(in, p) == \E j \in (p + 3)..Len(in) : BracketDigitsTo(in, p, j)

BracketQuotedDigits(in, p) ==
    /\ in[p + 1] = "["
    /\ \E j \in (p + 5)..Len(in) :
          /\ in[j] = "]"
          /\ in[p + 2] \in Quotes
          /\ in[j - 1] = in[p + 2]
          /\ \A i \in (p + 3)..(j - 2) : in[i] \in Digits

RECURSIVE StripZeros(_)
StripZeros(ds) == IF ds # <<>> /\ Head(ds) = "0" THEN StripZeros(Tail(ds)) ELSE ds

RECURSIVE LexLeq(_, _)
\* ds <= es, for digit strings of one length.
LexLeq(ds, es) ==
    \/ ds = <<>>
    \/ DigitVal(Head(ds)) < DigitVal(Head(es))
    \/ Head(ds) = Head(es) /\ LexLeq(Tail(ds), Tail(es))

\* The decimal value of ds is at most 2147483647.
FitsInt(ds) ==
    LET sig == StripZeros(ds)
    IN  \/ Len(sig) < 10
        \/ Len(sig) = 10 /\ LexLeq(sig, <<"2", "1", "4", "7", "4", "8", "3", "6", "4", "7">>)

\* The digits of the '[' digits ']' at p.
DigitsAt(in, p) ==
    LET j == CHOOSE j \in (p + 3)..Len(in) : BracketDigitsTo(in, p, j)
    IN  SubSeq(in, p + 2, j - 1)

IndexAttempt(p) == [production |-> "array_index", from |-> p]
QuotedAttempt(p) == [production |-> "quoted_key", from |-> p]

\* The order of the two bracket productions and the place each starts from.
BracketOrder ==
    /\ tried # <<>> =>
          /\ input[saved_pos + 1] = "["
          /\ starts[Len(starts)] = saved_pos
          /\ \/ tried = <<IndexAttempt(saved_pos)>>
             \/ tried = <<IndexAttempt(saved_pos), QuotedAttempt(saved_pos)>>
    /\ ppc = "try_index" => tried = <<>> /\ pos = saved_pos /\ peek(input, pos) = "["
    /\ ppc = "try_quoted" => tried = <<IndexAttempt(saved_pos)>> /\ pos = saved_pos
    /\ Len(tried) = 1 =>
          \/ ppc = "try_quoted"
          \/ ppc \in {"loop", "done"} /\ is_array_extraction(segments[Len(segments)])
    /\ Len(tried) = 2 =>
          \/ ppc \in {"loop", "done"} /\ is_object_extraction(segments[Len(segments)])
          \/ /\ ppc = "failed"
             /\ pos = saved_pos
             /\ perr = Err("Failed to parse segment", saved_pos)

\* ['digits'] and ["digits"] yield an ObjectExtraction.
QuotedDigitsAreKeys ==
    (tried # <<>> /\ BracketQuotedDigits(input, saved_pos) /\ ppc # "try_quoted") =>
        /\ Len(tried) = 2
        /\ ppc \in {"loop", "done"}
        /\ is_object_extraction(segments[Len(segments)])

\* C8 as stated: the index production first and the quoted-key production
\* after it from the same '[' when and only when the index production failed,
\* both failing leaves the cursor at the '[' with a parse error, and [digits]
\* always yields an ArrayExtraction, ['digits'] an ObjectExtraction.
C8_AsStated ==
    /\ BracketOrder
    /\ QuotedDigitsAreKeys
    /\ (tried # <<>> /\ BracketDigits(input, saved_pos)) =>
          /\ tried = <<IndexAttempt(saved_pos)>>
          /\ ppc \in {"loop", "done"}
          /\ is_array_extraction(segments[Len(segments)])

\* C8, amended: as stated, but [digits] yields an ArrayExtraction when the
\* value of the digits is at most 2147483647; above it the index production
\* fails, the quoted-key production fails after it, and the parse fails.  In
\* no case does [digits] yield an ObjectExtraction.
C8_BracketBacktracking ==
    /\ BracketOrder
    /\ QuotedDigitsAreKeys
    /\ (tried # <<>> /\ BracketDigits(input, saved_pos)) =>
          IF FitsInt(DigitsAt(input, saved_pos))
          THEN /\ tried = <<IndexAttempt(saved_pos)>>
               /\ ppc \in {"loop", "done"}
               /\ is_array_extraction(segments[Len(segments)])
          ELSE ppc \in {"try_quoted", "failed"}

\* Both productions failed at the second segment of a path.
C8_Witness ==
    /\ ppc = "failed"
    /\ Len(tried) = 2
    /\ saved_pos > 1
    /\ pos = saved_pos

-----------------------------------------------------------------------------
IsIdentifier(k) == k # <<>> /\ \A i \in 1..Len(k) : k[i] \in KeyChars

\* The three spellings of the key k.
DotForm(k) == <<".">> \o k
BracketForm(k, q) == <<"[", q>> \o k \o <<q, "]">>

\* The input with its segment i replaced by the text t.
WithSegment(i, t) ==
    SubSeq(input, 1, SegFrom(i)) \o t \o SubSeq(input, SegTo(i) + 1, Len(input))

\* C9: for a key k of letters, digits and '_', the spellings .k, ['k'] and
\* ["k"] parse to the same ObjectExtraction{k}, alone and as any segment of a
\* longer path: replacing a segment with key k by any of the three spellings
\* leaves the parsed segment sequence as it is.
C9_KeySpellingsAgree ==
    ppc = "done" =>
        \A i \in 1..Len(segments) :
            (is_object_extraction(segments[i]) /\ IsIdentifier(segments[i].key)) =>
                LET k == segments[i].key
                    expected == [ok |-> TRUE, segments |-> segments, err |-> NoErr]
                IN  /\ segments[i] = ObjectExtraction(k)
                    /\ parse(WithSegment(i, DotForm(k))) = expected
                    /\ parse(WithSegment(i, BracketForm(k, SQ))) = expected
                    /\ parse(WithSegment(i, BracketForm(k, DQ))) = expected
                    /\ parse(<<"$">> \o DotForm(k)).segments = <<segments[i]>>
                    /\ parse(<<"$">> \o BracketForm(k, SQ)).segments = <<segments[i]>>
                    /\ parse(<<"$">> \o BracketForm(k, DQ)).segments = <<segments[i]>>

\* A quoted key inside a longer path, spelled with digits and '_' too.
C9_Witness ==
    /\ ppc = "done"
    /\ Len(segments) = 3
    /\ is_object_extraction(segments[2])
    /\ segments[2].key = <<"k", "_", "1">>
    /\ input[SegFrom(2) + 1] = "["

-----------------------------------------------------------------------------
(* Properties of seek, under SpecSeek *)

\* One step of the fold: the segment applied to the value at hand.
ApplySegment(current, segment) ==
    IF segment.kind = "object" THEN get_object_by_key(current, segment.key)
    ELSE get_element_at_index(current, segment.index)

RECURSIVE FoldSegments(_, _)
\* The left fold of segs over root: the fold of all but the last segment,
\* then the last segment; a failure anywhere is the failure of the whole.
FoldSegments(root, segs) ==
    IF segs = <<>> THEN [ok |-> TRUE, value |-> root]
    ELSE LET before == FoldSegments(root, SubSeq(segs, 1, Len(segs) - 1))
         IN  IF ~before.ok THEN before
             ELSE ApplySegment(before.value, segs[Len(segs)])

\* The first segment at which the fold fails (0: none).
FirstFailure(root, segs) ==
    IF \A n \in 1..Len(segs) : FoldSegments(root, SubSeq(segs, 1, n)).ok THEN 0
    ELSE CHOOSE n \in 1..Len(segs) :
            /\ ~FoldSegments(root, SubSeq(segs, 1, n)).ok
            /\ \A m \in 1..(n - 1) : FoldSegments(root, SubSeq(segs, 1, m)).ok

SeekCalled == seek_result # NotCalled

\* C5: seek(root, segments) is the left fold of the segments over root, an
\* object segment applying get_object_by_key and an array segment
\* get_element_at_index, in sequence order; no segment gives root itself; at
\* the first step that fails seek returns an error, has applied no later
\* segment, and returns no Variant (no partly resolved one either).
C5_SeekIsLeftFold ==
    SeekCalled =>
        LET fold == FoldSegments(seek_root, seek_path)
            f == FirstFailure(seek_root, seek_path)
        IN  /\ seek_result.ok = fold.ok
            /\ seek_result.value = fold.value
            /\ seek_path = <<>> => seek_result.ok /\ seek_result.value = seek_root
            /\ seek_result.ok => seek_result.applied = Len(seek_path) /\ f = 0
            /\ ~seek_result.ok =>
                  /\ seek_result.applied = f
                  /\ seek_result.value = NoVariant
                  /\ seek_result.err # "OK"

\* Two segments resolve and the third fails.
C5_Witness ==
    /\ SeekCalled
    /\ Len(seek_path) = 3
    /\ ~seek_result.ok
    /\ seek_result.applied = 3
    /\ FoldSegments(seek_root, SubSeq(seek_path, 1, 2)).ok

-----------------------------------------------------------------------------
(* Properties of variant_query, under Spec *)

\* The call of context c is a call with two columns that reached the loop.
InLoop(c) == Len(columns[c]) = 2 /\ ~columns_only_null(columns[c])

VariantCellOf(c, i) == columns[c][1].cells[i]
PathCellOf(c, i) == columns[c][2].cells[i]

NullInput(c, i) == VariantCellOf(c, i).null \/ PathCellOf(c, i).null

\* The context holds a fragment-scoped path that has not been released.
HasFragmentPath(c) == fn_state[c] # NULLPTR /\ heap[fn_state[c]].live

\* Row i gives a path text to parse, and the text is malformed.
ParseFails(c, i) == ~NullInput(c, i) /\ ~parse(PathCellOf(c, i).text).ok

\* Row i has a value and a well-formed path.
Seekable(c, i) ==
    /\ ~NullInput(c, i)
    /\ VariantCellOf(c, i).kind = "value"
    /\ parse(PathCellOf(c, i).text).ok

\* The fold of row i's own path over row i's own value.
FoldOfRow(c, i) ==
    FoldSegments(Variant(Metadata, VariantCellOf(c, i).value),
                 parse(PathCellOf(c, i).text).segments)

\* The batch went through the loop and came back.
Returned(c) == InLoop(c) /\ qpc[c] = "returned"

\* C1: in every batch and for every row i whose Variant cell or path cell is
\* null, output row i is null, and neither the parser nor seek nor a
\* conversion ran for the row.
C1_NullPropagation ==
    \A c \in Ctxs :
        Len(columns[c]) = 2 =>
            \A i \in 1..num_rows(columns[c]) :
                NullInput(c, i) =>
                    /\ i <= Len(trace[c]) =>
                          /\ i <= Len(result[c])
                          /\ result[c][i] = NullCell
                          /\ ~trace[c][i].parsed
                          /\ ~trace[c][i].sought
                          /\ ~trace[c][i].cast
                    /\ qpc[c] = "returned" =>
                          /\ i <= Len(result[c])
                          /\ result[c][i] = NullCell

\* A batch came back whose first row has a null Variant and whose second has
\* a null path, next to cells that are not null.
C1_Witness ==
    \E c \in Ctxs :
        /\ Returned(c)
        /\ Len(trace[c]) = 2
        /\ VariantCellOf(c, 1).null /\ ~PathCellOf(c, 1).null
        /\ ~VariantCellOf(c, 2).null /\ PathCellOf(c, 2).null
        /\ result[c] = <<NullCell, NullCell>>

\* C2: with no fragment-constant path, a row whose path text does not parse
\* gives a null output for the row; the failure is no error status of the
\* call, the loop goes on to the next row, and the call that comes back
\* comes back OK with every row evaluated.
C2_ParseFailureIsNullRow ==
    \A c \in Ctxs :
        (InLoop(c) /\ fn_state[c] = NULLPTR) =>
            \A i \in 1..Len(trace[c]) :
                ParseFails(c, i) =>
                    /\ trace[c][i].outcome = "parse_error"
                    /\ i <= Len(result[c])
                    /\ result[c][i] = NullCell
                    /\ status[c] \in {"none", "OK"}
                    /\ i = Len(trace[c]) => row[c] = i /\ qpc[c] \in {"loop", "returned"}
                    /\ qpc[c] = "returned" =>
                          /\ status[c] = "OK"
                          /\ Len(trace[c]) = num_rows(columns[c])
                          /\ Len(result[c]) = num_rows(columns[c])

\* A batch came back OK whose first row has a malformed path and whose second
\* row gave a value.
C2_Witness ==
    \E c \in Ctxs :
        /\ Returned(c)
        /\ fn_state[c] = NULLPTR
        /\ Len(trace[c]) = 2
        /\ ParseFails(c, 1)
        /\ ~VariantCellOf(c, 1).null /\ VariantCellOf(c, 1).kind = "value"
        /\ trace[c][2].outcome = "success"
        /\ result[c][1] = NullCell /\ result[c][2] # NullCell
        /\ status[c] = "OK"

\* C3: a row with a value and a well-formed path whose seek fails (the key is
\* not in the object, the index is not in [0, count), or the segment meets a
\* value of another type) gives a null output for the row; the call comes
\* back OK, and no call comes back with an error status for it.
C3_SeekFailureIsNullRow ==
    \A c \in Ctxs :
        InLoop(c) =>
            \A i \in 1..Len(trace[c]) :
                (Seekable(c, i) /\ ~FoldOfRow(c, i).ok) =>
                    /\ trace[c][i].outcome = "seek_failure"
                    /\ i <= Len(result[c])
                    /\ result[c][i] = NullCell
                    /\ status[c] \in {"none", "OK"}
                    /\ qpc[c] \in {"loop", "returned"} \/ i < Len(trace[c])
                    /\ qpc[c] = "returned" => status[c] = "OK"

\* A batch came back OK whose first row asks for an index beyond the array
\* and whose second row asks for a key of a string.
C3_Witness ==
    \E c \in Ctxs :
        /\ Returned(c)
        /\ status[c] = "OK"
        /\ Len(trace[c]) = 2
        /\ VariantCellOf(c, 1) = ValueCell(RootObject) /\ PathCellOf(c, 1) = PathCell(IndexPath)
        /\ VariantCellOf(c, 2) = ValueCell(SparseObject) /\ PathCellOf(c, 2) = PathCell(DeepPath)
        /\ result[c] = <<NullCell, NullCell>>

\* What row i of the batch is to give, from the row alone: null for a null
\* input, a malformed path, a cell without a value, a failed seek or a value
\* that does not convert; otherwise the owned form of the value found.
ExpectedEntry(c, i) ==
    IF ~Seekable(c, i) THEN NullCell
    ELSE LET fold == FoldOfRow(c, i)
         IN  IF ~fold.ok THEN NullCell
             ELSE IF fold.value.value = VCorrupt THEN NullCell
             ELSE Cell([variant |-> VariantValue(Metadata, fold.value.value)])

\* C4: for any batch of n rows and any mix of outcomes of the rows, every
\* iteration of the loop of _do_variant_query appends exactly one entry, in
\* row order, entry i is the outcome of row i, no iteration ends the loop
\* early, and the column that is built holds exactly n entries.
C4_OneEntryPerRow ==
    \A c \in Ctxs :
        InLoop(c) =>
            /\ Len(result[c]) = Len(trace[c])
            /\ row[c] = Len(trace[c])
            /\ qpc[c] \in {"loop", "returned"}
            /\ \A i \in 1..Len(result[c]) : result[c][i] = ExpectedEntry(c, i)
            /\ qpc[c] = "returned" => Len(result[c]) = num_rows(columns[c])

\* An iteration stopped the process on a value that does not convert: the
\* row has no entry and the batch no column.
C4_Witness ==
    \E c \in Ctxs :
        /\ InLoop(c)
        /\ qpc[c] = "crashed"
        /\ Len(trace[c]) = 2
        /\ trace[c][1].outcome = "success"
        /\ Len(result[c]) = 1
        /\ VariantCellOf(c, 2) = ValueCell(SparseObject)
        /\ PathCellOf(c, 2) = PathCell(KeyPath)

\* The rows for which the call asked get_or_parse_variant_segments.
Asked(c) == {i \in 1..Len(trace[c]) : ~NullInput(c, i)}

\* C10: when the path argument is a non-null constant and the FRAGMENT_LOCAL
\* preload succeeded, then until the clear the path has been parsed exactly
\* once on the context, by the preload: for every row of every batch
\* get_or_parse_variant_segments runs no parse and gives the stored path,
\* which is the parse of the constant.
C10_ConstantPathParsedOnce ==
    \A c \in Ctxs :
        (is_notnull_constant_column(path_arg[c]) /\ HasFragmentPath(c)) =>
            /\ parse_calls[c] = 1
            /\ heap[fn_state[c]].variant_path = parse(path_arg[c].text).segments
            /\ \A i \in Asked(c) :
                  /\ ~trace[c][i].parsed
                  /\ trace[c][i].outcome # "parse_error"
                  /\ trace[c][i].used = heap[fn_state[c]].variant_path

\* The second batch of a context with a preloaded path came back, and both
\* of its rows sought with the stored path.
C10_Witness ==
    \E c \in Ctxs :
        /\ is_notnull_constant_column(path_arg[c])
        /\ path_arg[c].text = KeyPath
        /\ HasFragmentPath(c)
        /\ batches[c] = 2
        /\ Returned(c)
        /\ Len(trace[c]) = 2
        /\ \A i \in 1..2 : trace[c][i].sought /\ ~trace[c][i].parsed
        /\ parse_calls[c] = 1

\* Rows i < j of the batch both ask for a path and give the same text.
SameText(c, i, j) ==
    /\ i < j
    /\ ~NullInput(c, i) /\ ~NullInput(c, j)
    /\ PathCellOf(c, i).text = PathCellOf(c, j).text

\* C11: with no fragment-constant path, a path text is parsed at most once:
\* a row whose path text is the text of an earlier row of the batch does not
\* run the parser again.
C11_ParsedOncePerText ==
    \A c \in Ctxs :
        (InLoop(c) /\ fn_state[c] = NULLPTR) =>
            \A i, j \in 1..Len(trace[c]) :
                (SameText(c, i, j) /\ trace[c][i].parsed) => ~trace[c][j].parsed

\* A batch came back whose two rows give the same well-formed text, and the
\* parser ran for each.
C11_Witness ==
    \E c \in Ctxs :
        /\ Returned(c)
        /\ fn_state[c] = NULLPTR
        /\ Len(trace[c]) = 2
        /\ SameText(c, 1, 2)
        /\ PathCellOf(c, 1) = PathCell(KeyPath)
        /\ trace[c][1].parsed /\ trace[c][2].parsed
        /\ parse_calls[c] = 2

-----------------------------------------------------------------------------
(* Properties of the fragment-scoped state, under SpecCalls and Spec *)

\* The function state of context c points to an object that was deleted.
Dangling(c) == fn_state[c] # NULLPTR /\ ~heap[fn_state[c]].live

\* C12: once clear_variant_segments(FRAGMENT_LOCAL) has released the entry
\* of a context, nothing on the context reaches it: get_function_state does
\* not give it, and so neither get_or_parse_variant_segments nor a row of
\* variant_query uses it.
C12_ReleasedUnreachable ==
    \A c \in Ctxs : get_function_state(c) # NULLPTR => heap[get_function_state(c)].live

\* After the clear a batch came back, and a row of it sought with the path
\* read from the deleted object, without a parse.
C12_Witness ==
    \E c \in Ctxs :
        /\ Dangling(c)
        /\ Returned(c)
        /\ \E i \in 1..Len(trace[c]) :
              /\ ~trace[c][i].parsed
              /\ trace[c][i].sought
              /\ trace[c][i].used = heap[fn_state[c]].variant_path

\* The path argument of context c is a non-null constant that does not parse.
MalformedConstant(c) ==
    is_notnull_constant_column(path_arg[c]) /\ ~parse(path_arg[c].text).ok

\* C13: a constant path that does not parse does not fail the fragment:
\* preload_variant_segments returns OK for it, the context is opened, and
\* every row of every batch gives null.
C13_MalformedConstantRecoverable ==
    \A c \in Ctxs :
        MalformedConstant(c) =>
            /\ phase[c] # "failed"
            /\ Returned(c) => \A i \in 1..Len(result[c]) : result[c][i] = NullCell

\* preload_variant_segments(FRAGMENT_LOCAL) returned the parse error for the
\* constant: the fragment failed before any batch.
C13_Witness ==
    \E c \in Ctxs :
        /\ path_arg[c] = Constant(InvalidPath)
        /\ phase[c] = "failed"
        /\ fn_state[c] = NULLPTR
        /\ parse_calls[c] = 1
        /\ batches[c] = 0

-----------------------------------------------------------------------------
(* Properties of the casts, under SpecCast *)

CastSource == cast_value.owned_value

\* The targets a cast is written for.
CastTargets == {t \in LogicalTypes : HasCoreCast(t)} \cup {"TYPE_VARIANT"}

\* C14: a resolved Variant of type Null gives an output null for every
\* target type (boolean, integer and floating, string, pass-through
\* Variant) under both failure policies: cast_variant_value_to returns OK
\* and the one entry it appended is null.
C14_NullVariantIsNull ==
    \A policy \in BOOLEAN :
        (/\ CastSource.type = "NULL_TYPE"
         /\ cast_type \in CastTargets
         /\ cast_out[policy] # NotCast) =>
            cast_out[policy] = Casted(<<NullCell>>)

\* A Null Variant went through cast_variant_value_to with the pass-through
\* target and with a target that has a core cast.
C14_Witness ==
    /\ CastSource.type = "NULL_TYPE"
    /\ cast_type = "TYPE_VARIANT"
    /\ \A policy \in BOOLEAN : cast_out[policy] # NotCast

\* What the claim says a text casts to: "true", "false" or "error".
ExpectedBool ==
    [t \in CastTexts |->
        CASE t \in {<<"1">>, <<"1", "2">>, <<"-", "1">>, TrueText} -> "true"
          [] t \in {<<"0">>, <<"0", "0">>, <<"+", "0">>, FalseText} -> "false"
          [] OTHER -> "error"]

\* C15: cast_variant_to_bool gives a Boolean Variant its own value; a String
\* Variant is parsed as an integer first (non-zero is true), as a boolean
\* literal only when that fails, and is an error when both fail; any other
\* non-null type is an unsupported-cast error; nothing is appended on an
\* error.
C15_BoolCast ==
    (cast_type = "TYPE_BOOLEAN" /\ cast_core # NotCast) =>
        /\ CastSource.type = "BOOLEAN" => cast_core = Casted(<<Cell(CastSource.bool)>>)
        /\ (CastSource.type = "STRING" /\ "str" \in DOMAIN CastSource) =>
               CASE ExpectedBool[CastSource.str] = "true" -> cast_core = Casted(<<Cell(TRUE)>>)
                 [] ExpectedBool[CastSource.str] = "false" -> cast_core = Casted(<<Cell(FALSE)>>)
                 [] OTHER -> ~cast_core.ok
        /\ CastSource.type \notin {"NULL_TYPE", "BOOLEAN", "STRING"} =>
               ~cast_core.ok /\ cast_core.err = "NotSupported"
        /\ ~cast_core.ok => cast_core.appended = <<>>

\* The boolean cast ran on a text that is an integer, on a boolean literal,
\* on a text that is neither, or on a value of another type.
C15_Witness ==
    /\ cast_type = "TYPE_BOOLEAN"
    /\ cast_core # NotCast
    /\ CastSource.type = "STRING"
    /\ "str" \in DOMAIN CastSource
    /\ CastSource.str = TrueText

\* The integer targets and the range of each.
IntegerTargets == {"TYPE_TINYINT", "TYPE_SMALLINT", "TYPE_INT", "TYPE_BIGINT"}

Representable(ResultType, n) ==
    \/ ResultType \notin {"TYPE_TINYINT", "TYPE_SMALLINT"}
    \/ /\ 0 - 2 ^ (Width(ResultType) - 1) <= n
       /\ n < 2 ^ (Width(ResultType) - 1)

\* d is n modulo 2^w within the signed range of the target.
Reduced(ResultType, n, d) ==
    /\ Representable(ResultType, d)
    /\ ResultType \in {"TYPE_TINYINT", "TYPE_SMALLINT"} =>
           n % (2 ^ Width(ResultType)) = d % (2 ^ Width(ResultType))
    /\ ResultType \notin {"TYPE_TINYINT", "TYPE_SMALLINT"} => d = n

\* C16: cast_variant_to_arithmetic accepts Boolean (0 or 1), Int8, Int16,
\* Int32 and Int64 (and Null, which gives null); the output is the source
\* value when the target can hold it and the value modulo 2^w otherwise,
\* never an error; every other source type is an unsupported-cast error
\* that appends nothing.
C16_ArithmeticCast ==
    (cast_type \in IntegerTargets \cup {"TYPE_DOUBLE"} /\ cast_core # NotCast) =>
        /\ CastSource.type = "NULL_TYPE" => cast_core = Casted(<<NullCell>>)
        /\ CastSource.type = "BOOLEAN" =>
               cast_core = Casted(<<Cell(IF CastSource.bool THEN 1 ELSE 0)>>)
        /\ (CastSource.type \in IntegerTypes /\ "int" \in DOMAIN CastSource) =>
               /\ cast_core.ok
               /\ Len(cast_core.appended) = 1
               /\ ~cast_core.appended[1].null
               /\ Reduced(cast_type, CastSource.int, cast_core.appended[1].datum)
               /\ Representable(cast_type, CastSource.int) =>
                      cast_core.appended[1].datum = CastSource.int
        /\ CastSource.type \notin IntegerTypes \cup {"NULL_TYPE", "BOOLEAN"} =>
               cast_core = CastError("NotSupported", <<>>)

\* An Int32 that does not fit was cast to the 8-bit target.
C16_Witness ==
    /\ cast_type = "TYPE_TINYINT"
    /\ cast_core # NotCast
    /\ CastSource = VInt("INT32", 65541)
    /\ cast_core.appended = <<Cell(5)>>

\* C17: the soft and the hard policy of cast_variant_value_to run the same
\* core cast.  When it succeeds both append the same single value and
\* return OK; when it fails soft appends one null and returns OK, hard
\* appends nothing and returns an error.  Neither appends more than one
\* value in a call.
C17_PoliciesShareCore ==
    (cast_out[TRUE] # NotCast /\ cast_out[FALSE] # NotCast) =>
        /\ Len(cast_out[TRUE].appended) <= 1
        /\ Len(cast_out[FALSE].appended) <= 1
        /\ (HasCoreCast(cast_type) /\ cast_core # NotCast) =>
               IF cast_core.ok
               THEN /\ cast_out[FALSE] = Casted(cast_core.appended)
                    /\ cast_out[TRUE] = Casted(cast_core.appended)
                    /\ Len(cast_core.appended) = 1
               ELSE /\ cast_out[FALSE] = Casted(<<NullCell>>)
                    /\ ~cast_out[TRUE].ok
                    /\ cast_out[TRUE].appended = <<>>

\* Both policies ran on a value the core cast fails for.
C17_Witness ==
    /\ cast_out[TRUE] # NotCast
    /\ cast_out[FALSE] # NotCast
    /\ HasCoreCast(cast_type)
    /\ cast_core # NotCast
    /\ ~cast_core.ok

-----------------------------------------------------------------------------
(* Properties of VariantValue(const Slice&), under SpecSlice *)

\* The declared length of a buffer of at least four bytes exceeds k.
DeclaredAbove(bytes, k) ==
    bytes[1] > k \/ bytes[2] # 0 \/ bytes[3] # 0 \/ bytes[4] # 0

MustReject(bytes) ==
    Len(bytes) < 4 \/ DeclaredAbove(bytes, Len(bytes) - 4)

\* C18: VariantValue(Slice) throws 'Invalid variant size' for every buffer
\* whose declared length exceeds the bytes that follow the prefix, buffers
\* shorter than the prefix included; it never reads outside the buffer;
\* when it accepts, metadata length plus value length is the declared
\* length.
C18_SliceChecked ==
    made # NotMade =>
        /\ ~made.outside
        /\ MustReject(slice) => made.state = "thrown"
        /\ made.state = "built" =>
               size_t(made.metadata_size + made.value_size) = made.declared

\* The constructor ran on a buffer shorter than the prefix.
C18_Witness ==
    /\ made # NotMade
    /\ Len(slice) < 4

-----------------------------------------------------------------------------
(* Properties of the argument check and of the parser's errors *)

\* A call of variant_query has returned.
CallReturned(c) == qpc[c] = "returned"

\* C19: variant_query called with a number of columns other than 2 returns
\* InvalidArgument and no column, before any row is processed, whatever the
\* columns hold, a column of nulls only included.
C19_ArityChecked ==
    \A c \in Ctxs :
        (CallReturned(c) /\ Len(columns[c]) # 2) =>
            /\ status[c] = "InvalidArgument"
            /\ result[c] = <<>>
            /\ trace[c] = <<>>

\* variant_query returned from a call with a single column that holds only
\* nulls.
C19_Witness ==
    \E c \in Ctxs :
        /\ CallReturned(c)
        /\ Len(columns[c]) = 1
        /\ columns[c][1].only_null

\* C20: every failure parse returns carries the byte offset at which it
\* occurred and an expectation, on every failure path, the missing root
\* anchor and the failure of both bracket productions included.
C20_ErrorsCarryOffset ==
    ppc = "failed" =>
        /\ perr.msg # NoErr.msg
        /\ perr.at # NoPos
        /\ perr.at \in 0..Len(input)

\* parse failed on a text that does not start with the root anchor.
C20_Witness ==
    /\ ppc = "failed"
    /\ ~parse_root(input, 0)

-----------------------------------------------------------------------------
(* Properties of the parser called twice, under SpecReparse *)

\* C21: parse() called twice on one parser object returns the same both
\* times (the same success or failure and the same segments in the same
\* order), and so does a parser of its own over the same text: the cursor
\* the first call left does not count, parse resets it on entry.
C21_ParseIdempotent ==
    (first # NoResult /\ ppc \in {"done", "failed"}) =>
        /\ ParseResult = first
        /\ ParseResult = parse(input)

\* The second call has returned after a first call that left the cursor
\* past the start of the text, with segments or with a failure.
C21_Witness ==
    /\ first # NoResult
    /\ ppc = "done"
    /\ Len(segments) >= 2
    /\ pos = Len(input)

-----------------------------------------------------------------------------
(* Further properties of the parser, under SpecParser *)

\* C22: every segment of a successful parse is non-null and is exactly one
\* of object extraction and array extraction, and the segments come in the
\* order of their texts in the input; so seek never takes its 'Unknown
\* segment type' branch on a parsed path.
C22_SegmentsWellFormed ==
    ppc = "done" =>
        /\ Len(segments) = Len(starts)
        /\ \A i \in 1..Len(segments) :
              /\ segments[i] # NoSegment
              /\ is_object_extraction(segments[i]) # is_array_extraction(segments[i])
              /\ segments[i] = parse_segment(input, SegFrom(i)).seg
              /\ i > 1 => SegFrom(i - 1) < SegFrom(i)
        /\ \A v \in Values :
              seek(Variant(Metadata, v), segments).err # "Unknown segment type"

\* A parse succeeded with an object extraction followed by an array
\* extraction.
C22_Witness ==
    /\ ppc = "done"
    /\ Len(segments) = 2
    /\ is_object_extraction(segments[1])
    /\ is_array_extraction(segments[2])


-----------------------------------------------------------------------------
(* Properties of two instances on two threads, under SpecThreads *)

\* The segments row i of the context is to be sought with, from the
\* context's own arguments: the parse of the row's own path text, which for
\* a constant path is the text of the constant.
OwnSegments(c, i) == parse(PathCellOf(c, i).text).segments

\* C23: instances with distinct function contexts never use one another's
\* parsed path.  The fragment-scoped object of a context is its own and
\* holds the parse of its own constant, the scratch path of a call holds the
\* parse of a row of that call, and in every interleaving of the row steps
\* each entry an instance has appended is the entry its own row gives alone,
\* sought with the segments of its own path.
C23_InstancesIsolated ==
    /\ \A c, d \in Ctxs :
          (c # d /\ fn_state[c] # NULLPTR) => fn_state[c] # fn_state[d]
    /\ \A c \in Ctxs :
          /\ fn_state[c] # NULLPTR =>
                /\ is_notnull_constant_column(path_arg[c])
                /\ heap[fn_state[c]].variant_path = parse(path_arg[c].text).segments
          /\ fn_state[c] = NULLPTR =>
                \/ stored_path[c] = <<>>
                \/ \E i \in 1..Len(trace[c]) : stored_path[c] = OwnSegments(c, i)
          /\ InLoop(c) =>
                /\ \A i \in 1..Len(result[c]) : result[c][i] = ExpectedEntry(c, i)
                /\ \A i \in 1..Len(trace[c]) :
                      trace[c][i].sought => trace[c][i].used = OwnSegments(c, i)

\* Both instances are in their loops after one row each: one holds a
\* fragment-scoped path, the other parsed another path for its row, and each
\* has the value of its own path.
C23_Witness ==
    /\ fn_state[1] # NULLPTR /\ path_arg[1] = Constant(KeyPath)
    /\ fn_state[2] = NULLPTR /\ qpc[2] = "loop" /\ qpc[1] = "loop"
    /\ Len(trace[1]) = 1 /\ Len(trace[2]) = 1
    /\ PathCellOf(2, 1) = PathCell(RootPath)
    /\ trace[1][1].outcome = "success" /\ trace[2][1].outcome = "success"
    /\ result[1][1] # result[2][1]

-----------------------------------------------------------------------------
(* Further properties of a context in the framework's order, under Spec *)

\* C24: in every batch the segments row i is sought with are the parse of
\* row i's own path text: those of the fragment-scoped object when the path
\* is the constant every row holds, otherwise those the row's own parse has
\* put into the stored path of the call.  A row whose text does not parse is
\* sought with nothing and leaves the stored path as it was, and the entry
\* of row i is the entry the row gives alone.
C24_RowsUseOwnPath ==
    \A c \in Ctxs :
        InLoop(c) =>
            /\ HasFragmentPath(c) =>
                  \A i \in 1..num_rows(columns[c]) :
                      ~PathCellOf(c, i).null =>
                          heap[fn_state[c]].variant_path = OwnSegments(c, i)
            /\ \A i \in 1..Len(trace[c]) :
                  /\ trace[c][i].sought => trace[c][i].used = OwnSegments(c, i)
                  /\ ParseFails(c, i) =>
                        /\ ~trace[c][i].sought
                        /\ trace[c][i].used = <<>>
                  /\ (trace[c][i].parsed /\ i = Len(trace[c])) =>
                        IF ParseFails(c, i)
                        THEN \/ stored_path[c] = <<>>
                             \/ \E j \in 1..(i - 1) :
                                   /\ trace[c][j].parsed
                                   /\ stored_path[c] = OwnSegments(c, j)
                        ELSE stored_path[c] = OwnSegments(c, i)
            /\ \A i \in 1..Len(result[c]) : result[c][i] = ExpectedEntry(c, i)

\* A batch came back whose first row found the value of its key and whose
\* second row, with a text that does not parse, was sought with nothing
\* while the stored path still held the first row's segments.
C24_Witness ==
    \E c \in Ctxs :
        /\ Returned(c)
        /\ fn_state[c] = NULLPTR
        /\ Len(trace[c]) = 2
        /\ PathCellOf(c, 1) = PathCell(KeyPath)
        /\ trace[c][1].outcome = "success"
        /\ trace[c][1].used = parse(KeyPath).segments
        /\ ParseFails(c, 2)
        /\ trace[c][2].outcome = "parse_error"
        /\ stored_path[c] = parse(KeyPath).segments
        /\ result[c][1] # NullCell /\ result[c][2] = NullCell

-----------------------------------------------------------------------------
(* Further properties of the calls in any order, under SpecCalls *)

\* The objects preload_variant_segments has allocated.
Objects == 1..Len(heap)

\* An object that is not deleted and that no function state points to.
Leaked(o) == heap[o].live /\ \A c \in Ctxs : fn_state[c] # o

\* C25: for any sequence of preload_variant_segments and
\* clear_variant_segments calls on a context, every object preload has
\* allocated is released exactly once: none stays allocated with no
\* function state pointing to it, and none is deleted twice.
C25_ReleasedExactlyOnce ==
    \A o \in Objects :
        /\ ~Leaked(o)
        /\ heap[o].deletes <= 1

\* A second preload has replaced the function state: the first object is
\* still allocated and nothing points to it, and the second object has been
\* deleted twice.
C25_Witness ==
    /\ Len(heap) = 2
    /\ Leaked(1)
    /\ heap[1].deletes = 0
    /\ heap[2].deletes = 2

-----------------------------------------------------------------------------
(* Array indexes and quoted keys, under SpecParser *)

RECURSIVE ValueOf(_)
\* The decimal value of a digit string that fits an int, from its last digit.
ValueOf(ds) ==
    IF ds = <<>> THEN 0
    ELSE DigitVal(ds[Len(ds)]) + 10 * ValueOf(SubSeq(ds, 1, Len(ds) - 1))

\* C26: a '[' digits ']' whose value fits a 32-bit signed int yields an
\* ArrayExtraction whose index is the decimal value of the digits, leading
\* zeros ignored, and is not negative; one whose value is beyond it yields
\* no segment and the parse of the whole path fails.  Every ArrayExtraction
\* comes from such a segment.
C26_IndexIsDecimalValue ==
    /\ \A i \in 1..Len(segments) :
          /\ BracketDigits(input, SegFrom(i)) =>
                LET ds == DigitsAt(input, SegFrom(i))
                IN  /\ FitsInt(ds)
                    /\ segments[i] = ArrayExtraction(ValueOf(StripZeros(ds)))
                    /\ segments[i].index >= 0
                    /\ segments[i].index <= INT_MAX
          /\ is_array_extraction(segments[i]) => BracketDigits(input, SegFrom(i))
    /\ \A i \in 1..Len(starts) :
          (BracketDigits(input, SegFrom(i)) /\ ~FitsInt(DigitsAt(input, SegFrom(i)))) =>
              /\ i = Len(starts)
              /\ Len(segments) = i - 1
              /\ ppc \in {"try_index", "try_quoted", "failed"}
              /\ ~parse(input).ok

\* A path was parsed whose index is written with eleven leading zeros.
C26_Witness ==
    /\ ppc = "done"
    /\ Len(starts) = 1
    /\ BracketDigits(input, starts[1])
    /\ Len(DigitsAt(input, starts[1])) = 12
    /\ segments = <<ArrayExtraction(7)>>

\* '[' and a quote at p.
QuoteOpens(in, p) == in[p + 1] = "[" /\ p + 2 <= Len(in) /\ in[p + 2] \in Quotes

\* The text after the opening quote of the '[' quote at p.
AfterQuote(in, p) == SubSeq(in, p + 3, Len(in))

\* Index j of the input holds the quote that opened at p, after an even
\* number of backslashes.
UnescapedQuoteAt(in, p, j) ==
    /\ in[j] = in[p + 2]
    /\ BackslashRun(AfterQuote(in, p), j - (p + 2)) % 2 = 0

\* The first such index.
ClosingQuote(in, p) ==
    CHOOSE j \in (p + 3)..Len(in) :
        /\ UnescapedQuoteAt(in, p, j)
        /\ \A i \in (p + 3)..(j - 1) : ~UnescapedQuoteAt(in, p, i)

\* The character a backslash and c stand for.
EscapeTable(c) ==
    IF c = "n" THEN LF ELSE IF c = "t" THEN TAB ELSE IF c = "r" THEN CR ELSE c

\* Character k of the content is a backslash that escapes the next one.
EscapingAt(s, k) == s[k] = BS /\ BackslashRun(s, k) % 2 = 0 /\ k < Len(s)

RECURSIVE KeyFrom(_, _)
\* The key the content stands for, from character k on: the escaping
\* backslashes dropped, the characters after them taken from the table.
KeyFrom(s, k) ==
    IF k > Len(s) THEN <<>>
    ELSE IF EscapingAt(s, k) THEN KeyFrom(s, k + 1)
    ELSE <<IF k > 1 /\ EscapingAt(s, k - 1) THEN EscapeTable(s[k]) ELSE s[k]>>
         \o KeyFrom(s, k + 1)

\* C27: a quoted key ends at the first quote of its own kind that is not
\* escaped, and at no other character; a backslash and a quote or a
\* backslash give that character, a backslash and n, t or r give newline,
\* tab or carriage return, a backslash and any other character give that
\* character.  A quoted key that is so closed and followed by ']' is
\* accepted as an ObjectExtraction with that key, the empty key included.
C27_QuotedKeyEscapes ==
    /\ \A i \in 1..Len(segments) :
          QuoteOpens(input, SegFrom(i)) =>
              /\ ~UnclosedQuote(input, SegFrom(i))
              /\ LET p == SegFrom(i)
                     j == ClosingQuote(input, p)
                 IN  /\ j + 1 <= Len(input) /\ input[j + 1] = "]"
                     /\ (IF i < Len(starts) THEN starts[i + 1] ELSE pos) = j + 1
                     /\ segments[i] = ObjectExtraction(KeyFrom(SubSeq(input, p + 3, j - 1), 1))
                     /\ j = p + 3 => segments[i] = ObjectExtraction(<<>>)
    /\ \A i \in 1..Len(starts) :
          (QuoteOpens(input, SegFrom(i)) /\ ~UnclosedQuote(input, SegFrom(i))) =>
              LET j == ClosingQuote(input, SegFrom(i))
              IN  (j + 1 <= Len(input) /\ input[j + 1] = "]") =>
                      \/ Len(segments) >= i
                      \/ ppc \in {"try_index", "try_quoted"}

\* A double-quoted key was parsed that holds an escaped n, an escaped
\* backslash and an escaped x.
C27_Witness ==
    /\ ppc = "done"
    /\ Len(starts) = 1
    /\ input[3] = DQ
    /\ segments = <<ObjectExtraction(<<LF, BS, "x">>)>>

-----------------------------------------------------------------------------
(* Termination of parse, under SpecParserFair *)

\* Where segment i of the parse at hand has left the cursor.
CursorAfter(i) == IF i < Len(starts) THEN starts[i + 1] ELSE pos

\* The cursor stays within the input and never goes back before the
\* beginning of the segment at hand, and every iteration of the loop that
\* has given a segment has moved it on by two characters or more.
CursorAdvances ==
    /\ pos >= 0 /\ pos <= Len(input)
    /\ saved_pos <= Len(input)
    /\ starts # <<>> => pos >= starts[Len(starts)]
    /\ \A i \in 1..Len(starts) :
          /\ i > 1 => starts[i] >= starts[i - 1] + 2
          /\ i <= Len(segments) => CursorAfter(i) >= starts[i] + 2
          /\ i > Len(segments) =>
                /\ i = Len(starts)
                /\ ppc \in {"try_index", "try_quoted", "failed"}

\* C28: parse returns on every input: every iteration of its loop returns
\* an error or leaves the cursor two characters or more beyond where the
\* iteration began, the backtracking of the bracket productions never puts
\* it before the beginning of the segment, and it never passes the end of
\* the input.
C28_ParseTerminates == []CursorAdvances /\ <>Finished

\* parse has returned two segments of two characters each, the shortest
\* there are, and the cursor is at the end of the input.
C28_Witness ==
    /\ ppc = "done"
    /\ Len(segments) = 2
    /\ pos = Len(input)
    /\ \A i \in 1..2 : CursorAfter(i) = starts[i] + 2
=============================================================================
